---- MODULE Spec2Model ----
(***************************************************************************)
(* Model of the image-metadata-collector: the HTTP sink (ApiConfig.Write), *)
(* the object-storage sink (s3Client.Write), the record converter / skip   *)
(* filter / normalizer of the collector package and its tag resolvers      *)
(* (GetOrDefault...).                                                      *)
(*                                                                         *)
(* Text the code inspects character by character (header strings, regular  *)
(* expressions, namespaces, image references, tag values) is a sequence of *)
(* one-character strings.  Payloads are far too long to enumerate byte by  *)
(* byte: a payload is a record of its length and a tag naming its bytes.   *)
(***************************************************************************)
EXTENDS Integers, Sequences, FiniteSets, TLC

VARIABLES
    api,        \* the ApiConfig the writer was built with
    s3c,        \* the s3Client
    bucket,     \* the objects stored under s3c.fileName: <<>> or <<payload>>
    sink,       \* the sink under study: "api", "s3", or "none"
    content,    \* the payload handed to the latest Write
    wire,       \* the requests the latest Write handed to client.Do, in order
    zipped,     \* what gzip gave the latest Write, NoContent when it did not run
    reply,      \* what the transport / server answered to the latest Write
    ret,        \* what the latest Write returned: [n, err]
    k8Image,    \* the raw record under conversion (kubeclient.Image)
    annotationNames, \* the four key prefixes (*AnnotationNames)
    defaults,   \* the cluster-wide defaults (*CollectorImage)
    runConfig,  \* RunConfig: the image-filter list
    ci,         \* the CollectorImage being built / normalized
    pre,        \* ci as it was when the latest cleanCollectorImage started
    pc,         \* position of the conversion: "raw", "converted", "clean",
                \* "cleanAgain", or "idle" when no record is under conversion
    call,       \* the resolver call under study: [fn, m, name, default_]
    result,     \* what that call returned: [done, value]
    cluster,    \* what the API server holds: its namespaces with their
                \* workloads, and the list call that fails, if any
    heap,       \* the Go maps of the run: heap[a] is the map at address a
    k8Images,   \* what GetAllImagesForAllNamespaces returned: [nil, items]
    images,     \* what ConvertImages returned: [nil, items]
    stage,      \* position of run: "start", "sink", "enumerated",
                \* "converted", "stored", "returned", "fatal", or "idle"
    storageCfg, \* the caller's StorageConfig
    arrays,     \* the backing arrays of the []string values
    storage,    \* the writer NewStorage / NewApi returned
    runErr,     \* the error the latest call returned
    dest,       \* the content of the file the fs sink names
    jsonMarshal, \* the encoder handed to Store
    encoded,    \* what the encoder returned to Store
    writes      \* the payloads handed to storage.Write, in order

sinkVars == <<api, s3c, bucket, sink, content, wire, zipped, reply, ret>>
collVars == <<k8Image, annotationNames, defaults, runConfig, ci, pre, pc>>
resVars == <<call, result>>
runVars == <<cluster, heap, k8Images, images, stage, storageCfg, arrays,
             storage, runErr, dest, jsonMarshal, encoded, writes>>
vars == <<api, s3c, bucket, sink, content, wire, zipped, reply, ret,
          k8Image, annotationNames, defaults, runConfig, ci, pre, pc,
          call, result,
          cluster, heap, k8Images, images, stage, storageCfg, arrays,
          storage, runErr, dest, jsonMarshal, encoded, writes>>

(***************************************************************************)
(* Bounds of the model.                                                    *)
(***************************************************************************)
MaxHeaders == 2
MaxFilters == 1
MaxPatterns == 2

(***************************************************************************)
(* Character-level helpers.                                                *)
(***************************************************************************)
\* the index of the first occurrence of ch in s, 0 when there is none
IndexByte(s, ch) ==
    IF \E i \in 1..Len(s) : s[i] = ch
    THEN CHOOSE i \in 1..Len(s) : s[i] = ch /\ \A j \in 1..(i - 1) : s[j] # ch
    ELSE 0

SeqsUpTo(S, n) == UNION {[1..k -> S] : k \in 0..n}

LowerCase == <<"a","b","c","d","e","f","g","h","i","j","k","l","m",
               "n","o","p","q","r","s","t","u","v","w","x","y","z">>
UpperCase == <<"A","B","C","D","E","F","G","H","I","J","K","L","M",
               "N","O","P","Q","R","S","T","U","V","W","X","Y","Z">>

ToUpper(c) ==
    LET i == IndexByte(LowerCase, c) IN IF i = 0 THEN c ELSE UpperCase[i]
ToLower(c) ==
    LET i == IndexByte(UpperCase, c) IN IF i = 0 THEN c ELSE LowerCase[i]

(***************************************************************************)
(* HTTP sink: net/http pieces that ApiConfig.Write relies on.              *)
(***************************************************************************)
\* textproto.CanonicalMIMEHeaderKey, applied by http.Header.Set: the first
\* letter and every letter after a hyphen in upper case, the others in lower
\* case (every character used for a key here is a valid header-name byte).
CanonicalMIMEHeaderKey(k) ==
    [i \in 1..Len(k) |->
        IF i = 1 \/ k[i-1] = "-" THEN ToUpper(k[i]) ELSE ToLower(k[i])]

\* mutant of HeaderSet: a key already set keeps its first value
HeaderSetKeep(h, k, v) ==
    LET ck == CanonicalMIMEHeaderKey(k)
    IN  [x \in (DOMAIN h) \cup {ck} |-> IF x \in DOMAIN h THEN h[x] ELSE v]

\* http.Header.Set: the canonical key now holds this value and no other
HeaderSet(h, k, v) ==
    LET ck == CanonicalMIMEHeaderKey(k)
    IN  [x \in (DOMAIN h) \cup {ck} |-> IF x = ck THEN v ELSE h[x]]

\* http.Header.Get: the value under the canonical key, "" when absent
HeaderGet(h, k) ==
    LET ck == CanonicalMIMEHeaderKey(k)
    IN  IF ck \in DOMAIN h THEN h[ck] ELSE <<>>

HeaderHas(h, k) == CanonicalMIMEHeaderKey(k) \in DOMAIN h

EmptyHeader == [x \in {} |-> <<>>]

\* mutant of SplitN2: a string without separator read as a key with no value
SplitN2Lenient(s, sep) ==
    LET i == IndexByte(s, sep)
    IN  IF i = 0 THEN <<s, <<>>>>
        ELSE <<SubSeq(s, 1, i - 1), SubSeq(s, i + 1, Len(s))>>

\* strings.SplitN(s, sep, 2): cut at the first separator only
SplitN2(s, sep) ==
    LET i == IndexByte(s, sep)
    IN  IF i = 0 THEN <<s>>
        ELSE <<SubSeq(s, 1, i - 1), SubSeq(s, i + 1, Len(s))>>

\* header names and values the code writes
XApiKey == <<"x","-","a","p","i","-","k","e","y">>
XApiSignature == <<"x","-","a","p","i","-","s","i","g","n","a","t","u","r","e">>
ContentType == <<"C","o","n","t","e","n","t","-","T","y","p","e">>
ContentEncoding == <<"C","o","n","t","e","n","t","-","E","n","c","o","d","i","n","g">>
ApplicationJson == <<"a","p","p","l","i","c","a","t","i","o","n","/","j","s","o","n">>
GzipToken == <<"g","z","i","p">>

\* url.Parse, inside http.NewRequest: an endpoint without a scheme before its
\* first colon does not parse ("missing protocol scheme")
UrlParses(endpoint) == endpoint # "://no-scheme"

\* an error value: the format of its text and the argument formatted into it
NoErr == [fmt |-> "", arg |-> <<>>]
Errorf(f, a) == [fmt |-> f, arg |-> <<a>>]
IsErr(e) == e.fmt # ""

\* the API limit of one request body
MaxContentSize == 6 * 1024 * 1024

\* gzip at gzip.BestCompression: the output is decided by the bytes of the
\* input, which the model does not hold; its length z is any length the
\* encoder can give, and its bytes are named by the payload they encode
CompressJSONBytes(c, z) ==
    [enc |-> "gzip", len |-> z, data |-> c.data, plain |-> c.len]

\* gzip.Reader: the payload a gzip body encodes
Gunzip(b) == [enc |-> "raw", len |-> b.plain, data |-> b.data, plain |-> b.plain]

\* mutants of ExceedsLimit: the limit off by one, and the limit itself refused
ExceedsLimitOffByOne(n) == n > MaxContentSize + 1
ExceedsLimitInclusive(n) == n >= MaxContentSize
ExceedsLimit(n) == n > MaxContentSize

\* mutant of StatusIsOk: every 2xx status taken as success
StatusIs2xx(code) == code >= 200 /\ code < 300
StatusIsOk(code) == code = 200

\* the for loop of Write over api.HTTPHeaders, from the i-th header on:
\* [err, Header]
RECURSIVE SetExtraHeaders(_, _, _)
SetExtraHeaders(h, headers, i) ==
    IF i > Len(headers) THEN [err |-> NoErr, Header |-> h]
    ELSE LET headerParts == SplitN2(headers[i], ":")
         IN  IF Len(headerParts) # 2
             THEN [err |-> Errorf("invalid header format: %s", headers[i]),
                   Header |-> h]
             ELSE SetExtraHeaders(HeaderSet(h, headerParts[1], headerParts[2]),
                                  headers, i + 1)

\* mutant of FixedHeaders: Content-Encoding forgotten
FixedHeadersNoEncoding(a, addCompressHeader) ==
    [x \in {CanonicalMIMEHeaderKey(XApiKey), CanonicalMIMEHeaderKey(XApiSignature),
            CanonicalMIMEHeaderKey(ContentType)} |->
        IF x = CanonicalMIMEHeaderKey(XApiKey) THEN a.ApiKey
        ELSE IF x = CanonicalMIMEHeaderKey(XApiSignature) THEN a.ApiSignature
        ELSE ApplicationJson]

\* the three fixed headers, and Content-Encoding for a compressed body
FixedHeaders(a, addCompressHeader) ==
    LET h1 == HeaderSet(EmptyHeader, XApiKey, a.ApiKey)
        h2 == HeaderSet(h1, XApiSignature, a.ApiSignature)
        h3 == HeaderSet(h2, ContentType, ApplicationJson)
    IN  IF addCompressHeader THEN HeaderSet(h3, ContentEncoding, GzipToken)
        ELSE h3

\* client.Do: the transport refuses a request with an invalid (empty) header
\* name before anything is sent; otherwise the outcome o is the transport
\* error or the response the environment gives
Do(req, o) ==
    IF \E k \in DOMAIN req.Header : k = <<>>
    THEN [err |-> Errorf("net/http: invalid header field name %q", <<>>),
          StatusCode |-> 0, Status |-> ""]
    ELSE o

\* the requests Write hands to client.Do for one request it built
Dispatch(req) == <<req>>

\* mutant of Written: the length of the body sent
WrittenSent(c, body) == body.len

\* the count Write returns on success (return len(content), nil)
Written(c, body) == c.len

NoContent == [enc |-> "raw", len |-> 0, data |-> "none", plain |-> 0]
NoReply == [err |-> NoErr, StatusCode |-> 0, Status |-> ""]

\* ApiConfig.Write(content), with z the length gzip gives and o the outcome
\* of the exchange: [sent, zipped, n, err, reply]
ApiWriteResult(a, c, z, o) ==
    LET compress == ExceedsLimit(c.len)
        compressedContent == IF compress THEN CompressJSONBytes(c, z) ELSE NoContent
        contentToSend == IF compress THEN compressedContent ELSE c
        contentSize == contentToSend.len
        addCompressHeader == compress
        fail(e) == [sent |-> <<>>, zipped |-> compressedContent, n |-> 0,
                    reply |-> NoReply, err |-> e]
    IN  IF ExceedsLimit(contentSize)
        THEN fail(Errorf("content size is too large (%d bytes)", contentSize))
        ELSE IF ~UrlParses(a.ApiEndpoint)
        THEN fail(Errorf("parse %q: missing protocol scheme", a.ApiEndpoint))
        ELSE LET hs == SetExtraHeaders(FixedHeaders(a, addCompressHeader),
                                       a.HTTPHeaders, 1)
                 request == [Method |-> "PUT", URL |-> a.ApiEndpoint,
                             Body |-> contentToSend, Header |-> hs.Header]
                 res == Do(request, o)
                 done(n, e) == [sent |-> Dispatch(request),
                                zipped |-> compressedContent, n |-> n,
                                reply |-> res, err |-> e]
             IN  IF IsErr(hs.err) THEN fail(hs.err)
                 ELSE IF IsErr(res.err) THEN done(0, res.err)
                 ELSE IF ~StatusIsOk(res.StatusCode)
                 THEN done(0, Errorf("got a Status '%s' instead of an '200 OK' response for API request",
                                     res.Status))
                 ELSE done(Written(c, contentToSend), NoErr)

(***************************************************************************)
(* Object-storage sink.                                                    *)
(***************************************************************************)
\* s3Client.Write(content): cfgErr is what config.LoadDefaultConfig returns
\* and upErr what the transfer manager's UploadObject returns
S3WriteResult(c, cfgErr, upErr) ==
    IF IsErr(cfgErr) THEN [n |-> 0, err |-> cfgErr, stored |-> FALSE]
    ELSE IF IsErr(upErr) THEN [n |-> 0, err |-> upErr, stored |-> FALSE]
    ELSE [n |-> c.len, err |-> NoErr, stored |-> TRUE]

(***************************************************************************)
(* Inputs of the sinks.                                                    *)
(***************************************************************************)
HdrCustom == <<"X","-","C",":","v">>
HdrColons == <<"X","-","C",":","a",":","b">>
HdrEncoding == <<"c","o","n","t","e","n","t","-","e","n","c","o","d","i","n","g",":","b","r">>
HdrApiKey == <<"X","-","A","P","I","-","K","E","Y",":","k","2">>
HdrType == <<"C","o","n","t","e","n","t","-","T","y","p","e",":","t">>
HdrNoColon == <<"b","a","d">>

HeaderStrings ==
    {HdrCustom, HdrColons, HdrEncoding, HdrApiKey, HdrType, HdrNoColon}

ApiConfigs ==
    [ApiKey : {<<"k","1">>}, ApiSignature : {<<"s","1">>},
     ApiEndpoint : {"https://api.example.com", "://no-scheme"},
     HTTPHeaders : SeqsUpTo(HeaderStrings, MaxHeaders)]

Payload(n, d) == [enc |-> "raw", len |-> n, data |-> d, plain |-> n]

ContentLens ==
    {4, 16, MaxContentSize, MaxContentSize + 1, 7 * 1024 * 1024}

Contents == {Payload(n, "json") : n \in ContentLens}

\* lengths gzip can give for payload c: gzip runs for a payload longer than
\* the limit only
GzipSizes(c) ==
    IF c.len > MaxContentSize
    THEN {7 * 1024, MaxContentSize, MaxContentSize + 1}
    ELSE {0}

Response(code, status) == [err |-> NoErr, StatusCode |-> code, Status |-> status]
TransportError == [err |-> [fmt |-> "dial tcp: connection refused", arg |-> <<>>],
                   StatusCode |-> 0, Status |-> ""]

Outcomes ==
    {TransportError, Response(200, "200 OK"), Response(201, "201 Created"),
     Response(204, "204 No Content"), Response(500, "500 Internal Server Error")}

S3Errors ==
    {NoErr, [fmt |-> "operation error S3: PutObject, NoSuchBucket", arg |-> <<>>]}
S3ConfigErrors ==
    {NoErr, [fmt |-> "failed to load shared config", arg |-> <<>>]}

S3Clients ==
    {[bucket |-> "bucket", endpoint |-> e, insecure |-> FALSE, region |-> "eu-1",
      forcePathStyle |-> (e # ""), fileName |-> "env-output.json"]
        : e \in {"", "http://minio:9000"}}

NoRet == [n |-> -1, err |-> NoErr]

(***************************************************************************)
(* Actions of the sinks.                                                   *)
(***************************************************************************)
\* run hands the encoded report to the selected sink once (Store)
ApiWrite ==
    /\ sink = "api"
    /\ ret = NoRet
    /\ \E c \in Contents, o \in Outcomes : \E z \in GzipSizes(c) :
          LET r == ApiWriteResult(api, c, z, o)
          IN  /\ content' = c
              /\ wire' = r.sent
              /\ zipped' = r.zipped
              /\ reply' = r.reply
              /\ ret' = [n |-> r.n, err |-> r.err]
    /\ UNCHANGED <<api, s3c, bucket, sink, collVars, resVars,
                   runVars>>

S3Write ==
    /\ sink = "s3"
    /\ ret = NoRet
    /\ \E c \in Contents, cfgErr \in S3ConfigErrors, upErr \in S3Errors :
          LET r == S3WriteResult(c, cfgErr, upErr)
          IN  /\ content' = c
              /\ bucket' = IF r.stored THEN <<c>> ELSE bucket
              /\ ret' = [n |-> r.n, err |-> r.err]
    /\ UNCHANGED <<api, s3c, sink, wire, zipped, reply, collVars, resVars,
                   runVars>>

(***************************************************************************)
(* Collector: library pieces (regexp, strings, strconv, maps).             *)
(***************************************************************************)
\* A pattern is read in the part of the regexp syntax made of literal
\* characters, "." (any character), "^" and "$" (start and end of the text),
\* a "*" after a literal or a ".", and "(" (which, never closed here, makes
\* the pattern fail to compile).
IsAtom(c) == c \notin {"^", "$", "*", "("}

Compiles(p) ==
    /\ \A i \in 1..Len(p) : p[i] # "("
    /\ \A i \in 1..Len(p) : p[i] = "*" => (i > 1 /\ IsAtom(p[i-1]))

AtomMatches(a, c) == a = "." \/ a = c

\* does p from its i-th element on match s from position j on (a prefix of it)
RECURSIVE MatchHere(_, _, _, _)
MatchHere(p, s, i, j) ==
    IF i > Len(p) THEN TRUE
    ELSE IF p[i] = "^" THEN j = 1 /\ MatchHere(p, s, i + 1, j)
    ELSE IF p[i] = "$" THEN j = Len(s) + 1 /\ MatchHere(p, s, i + 1, j)
    ELSE IF i < Len(p) /\ p[i+1] = "*"
    THEN \E k \in j..(Len(s) + 1) :
            /\ \A m \in j..(k - 1) : AtomMatches(p[i], s[m])
            /\ MatchHere(p, s, i + 2, k)
    ELSE j <= Len(s) /\ AtomMatches(p[i], s[j]) /\ MatchHere(p, s, i + 1, j + 1)

\* regexp.MatchString(pattern, s): an unanchored search; a pattern that does
\* not compile gives (false, error)
MatchString(p, s) ==
    IF ~Compiles(p) THEN [matched |-> FALSE, err |-> TRUE]
    ELSE [matched |-> \E j \in 1..(Len(s) + 1) : MatchHere(p, s, 1, j),
          err |-> FALSE]

HasPrefix(s, old) == Len(s) >= Len(old) /\ SubSeq(s, 1, Len(old)) = old

\* strings.ReplaceAll(s, old, ""): the non-overlapping occurrences of old,
\* found from left to right, are removed
RECURSIVE RemoveAll(_, _)
RemoveAll(s, old) ==
    IF Len(s) < Len(old) THEN s
    ELSE IF HasPrefix(s, old) THEN RemoveAll(SubSeq(s, Len(old) + 1, Len(s)), old)
    ELSE <<s[1]>> \o RemoveAll(Tail(s), old)

DockerPullable ==
    <<"d","o","c","k","e","r","-","p","u","l","l","a","b","l","e",":","/","/">>

\* strconv.ParseBool: [value, err]
ParseBool(str) ==
    IF str \in {<<"1">>, <<"t">>, <<"T">>, <<"T","R","U","E">>,
                <<"t","r","u","e">>, <<"T","r","u","e">>}
    THEN [value |-> TRUE, err |-> FALSE]
    ELSE IF str \in {<<"0">>, <<"f">>, <<"F">>, <<"F","A","L","S","E">>,
                     <<"f","a","l","s","e">>, <<"F","a","l","s","e">>}
    THEN [value |-> FALSE, err |-> FALSE]
    ELSE [value |-> FALSE, err |-> TRUE]

\* an int64 is kept as its sign and its decimal digits (no leading zero),
\* since its values go beyond the integers TLC computes with
Digits == <<"0","1","2","3","4","5","6","7","8","9">>
IsDigit(c) == IndexByte(Digits, c) # 0
DigitVal(c) == IndexByte(Digits, c) - 1

I64(neg, mag) == [neg |-> neg, mag |-> mag]
I64Zero == I64(FALSE, <<"0">>)
\* math.MaxInt64 = 9223372036854775807, math.MinInt64 = -9223372036854775808
MaxInt64 ==
    I64(FALSE, <<"9","2","2","3","3","7","2","0","3","6",
                 "8","5","4","7","7","5","8","0","7">>)
MinInt64 ==
    I64(TRUE, <<"9","2","2","3","3","7","2","0","3","6",
                "8","5","4","7","7","5","8","0","8">>)

RECURSIVE StripZeros(_)
StripZeros(d) ==
    IF Len(d) > 1 /\ d[1] = "0" THEN StripZeros(Tail(d)) ELSE d

\* is the magnitude a greater than the magnitude b (both without leading zero)
MagGreater(a, b) ==
    \/ Len(a) > Len(b)
    \/ /\ Len(a) = Len(b)
       /\ \E i \in 1..Len(a) :
             /\ DigitVal(a[i]) > DigitVal(b[i])
             /\ \A j \in 1..(i - 1) : a[j] = b[j]

\* strconv.ParseInt(s, 10, 64): [value, err], err one of "" (none), "syntax",
\* "range"; on a range error the value is the nearest bound
ParseInt(str) ==
    LET signed == Len(str) > 0 /\ str[1] \in {"+", "-"}
        neg == Len(str) > 0 /\ str[1] = "-"
        body == IF signed THEN Tail(str) ELSE str
        mag == StripZeros(body)
    IN  IF body = <<>> \/ \E i \in 1..Len(body) : ~IsDigit(body[i])
        THEN [value |-> I64Zero, err |-> "syntax"]
        ELSE IF neg /\ MagGreater(mag, MinInt64.mag)
        THEN [value |-> MinInt64, err |-> "range"]
        ELSE IF ~neg /\ MagGreater(mag, MaxInt64.mag)
        THEN [value |-> MaxInt64, err |-> "range"]
        ELSE [value |-> I64(neg /\ mag # <<"0">>, mag), err |-> ""]

\* strings.Split(s, sep) for a one-character sep
RECURSIVE Split(_, _)
Split(s, sep) ==
    LET i == IndexByte(s, sep)
    IN  IF i = 0 THEN <<s>>
        ELSE <<SubSeq(s, 1, i - 1)>> \o Split(SubSeq(s, i + 1, Len(s)), sep)

\* a Go map[string]string: nil or not, and its entries
EmptyMap == [x \in {} |-> <<>>]
NilMap == [nil |-> TRUE, kv |-> EmptyMap]
MapOf(f) == [nil |-> FALSE, kv |-> f]
Has(m, name) == name \in DOMAIN m.kv

\* maps.Copy(dst, src)
MapsCopy(dst, src) ==
    MapOf([x \in (DOMAIN dst.kv) \cup (DOMAIN src.kv) |->
              IF x \in DOMAIN src.kv THEN src.kv[x] ELSE dst.kv[x]])

(***************************************************************************)
(* encoding/json: json.Unmarshal of a tag value.  A JSON text is kept as   *)
(* the sequence of its tokens (the characters of a string token are kept,  *)
(* text that is no JSON token is a token of kind "bad").                   *)
(***************************************************************************)
Tok(k) == [k |-> k, s |-> <<>>]
Str(chars) == [k |-> "str", s |-> chars]

JNull == [t |-> "null", s |-> <<>>, items |-> <<>>, members |-> <<>>]
JScalar(t, chars) == [t |-> t, s |-> chars, items |-> <<>>, members |-> <<>>]
JArr(items) == [t |-> "arr", s |-> <<>>, items |-> items, members |-> <<>>]
JObj(members) == [t |-> "obj", s |-> <<>>, items |-> <<>>, members |-> members]

ParseFail == [ok |-> FALSE, val |-> JNull, next |-> 0]
ParseOk(v, next) == [ok |-> TRUE, val |-> v, next |-> next]

\* the value that starts at the i-th token: [ok, val, next]
RECURSIVE ParseValue(_, _)
RECURSIVE ParseItems(_, _, _)
RECURSIVE ParseMembers(_, _, _)
ParseValue(toks, i) ==
    IF i > Len(toks) THEN ParseFail
    ELSE IF toks[i].k \in {"str", "num", "null", "true", "false"}
    THEN ParseOk(JScalar(toks[i].k, toks[i].s), i + 1)
    ELSE IF toks[i].k = "["
    THEN IF i < Len(toks) /\ toks[i+1].k = "]"
         THEN ParseOk(JArr(<<>>), i + 2)
         ELSE ParseItems(toks, i + 1, <<>>)
    ELSE IF toks[i].k = "{"
    THEN IF i < Len(toks) /\ toks[i+1].k = "}"
         THEN ParseOk(JObj(<<>>), i + 2)
         ELSE ParseMembers(toks, i + 1, <<>>)
    ELSE ParseFail

ParseItems(toks, i, acc) ==
    LET v == ParseValue(toks, i)
    IN  IF ~v.ok \/ v.next > Len(toks) THEN ParseFail
        ELSE IF toks[v.next].k = ","
        THEN ParseItems(toks, v.next + 1, Append(acc, v.val))
        ELSE IF toks[v.next].k = "]"
        THEN ParseOk(JArr(Append(acc, v.val)), v.next + 1)
        ELSE ParseFail

ParseMembers(toks, i, acc) ==
    IF i + 1 > Len(toks) \/ toks[i].k # "str" \/ toks[i+1].k # ":"
    THEN ParseFail
    ELSE LET v == ParseValue(toks, i + 2)
             m == [key |-> toks[i].s, val |-> v.val]
         IN  IF ~v.ok \/ v.next > Len(toks) THEN ParseFail
             ELSE IF toks[v.next].k = ","
             THEN ParseMembers(toks, v.next + 1, Append(acc, m))
             ELSE IF toks[v.next].k = "}"
             THEN ParseOk(JObj(Append(acc, m)), v.next + 1)
             ELSE ParseFail

\* the whole text is one JSON value: [ok, val]
ParseJSON(toks) ==
    LET r == ParseValue(toks, 1)
    IN  IF r.ok /\ r.next = Len(toks) + 1
        THEN [ok |-> TRUE, val |-> r.val]
        ELSE [ok |-> FALSE, val |-> JNull]

\* a key names a struct field when it equals the field's JSON name, letter
\* case aside
EqualFold(a, b) ==
    /\ Len(a) = Len(b)
    /\ \A i \in 1..Len(a) : ToLower(a[i]) = ToLower(b[i])

\* decoding into a string: [err, val]; null leaves the target as it is
DecodeString(v, old) ==
    IF v.t = "str" THEN [err |-> FALSE, val |-> v.s]
    ELSE IF v.t = "null" THEN [err |-> FALSE, val |-> old]
    ELSE [err |-> TRUE, val |-> old]

\* decoding into a []string, element by element; a type error is recorded
\* and decoding goes on
RECURSIVE DecodeStringsFrom(_, _, _)
DecodeStringsFrom(items, i, acc) ==
    IF i > Len(items) THEN acc
    ELSE LET d == DecodeString(items[i], <<>>)
         IN  DecodeStringsFrom(items, i + 1,
                 [err |-> acc.err \/ d.err, val |-> Append(acc.val, d.val)])

DecodeStrings(v, old) ==
    IF v.t = "arr"
    THEN DecodeStringsFrom(v.items, 1, [err |-> FALSE, val |-> <<>>])
    ELSE IF v.t = "null" THEN [err |-> FALSE, val |-> <<>>]
    ELSE [err |-> TRUE, val |-> old]

KeyRole == <<"r","o","l","e">>
KeyUuid == <<"u","u","i","d">>
KeyName == <<"n","a","m","e">>
ZeroOwner == [Role |-> <<>>, Uuid |-> <<>>, Name |-> <<>>]

\* decoding the members of an object into an Owner, in their order
RECURSIVE DecodeOwnerFrom(_, _, _)
DecodeOwnerFrom(members, i, acc) ==
    IF i > Len(members) THEN acc
    ELSE LET k == members[i].key
             v == members[i].val
             o == acc.val
             step ==
                IF EqualFold(k, KeyRole)
                THEN LET d == DecodeString(v, o.Role)
                     IN  [err |-> d.err, val |-> [o EXCEPT !.Role = d.val]]
                ELSE IF EqualFold(k, KeyUuid)
                THEN LET d == DecodeString(v, o.Uuid)
                     IN  [err |-> d.err, val |-> [o EXCEPT !.Uuid = d.val]]
                ELSE IF EqualFold(k, KeyName)
                THEN LET d == DecodeString(v, o.Name)
                     IN  [err |-> d.err, val |-> [o EXCEPT !.Name = d.val]]
                ELSE [err |-> FALSE, val |-> o]
         IN  DecodeOwnerFrom(members, i + 1,
                 [err |-> acc.err \/ step.err, val |-> step.val])

DecodeOwner(v) ==
    IF v.t = "obj"
    THEN DecodeOwnerFrom(v.members, 1, [err |-> FALSE, val |-> ZeroOwner])
    ELSE IF v.t = "null" THEN [err |-> FALSE, val |-> ZeroOwner]
    ELSE [err |-> TRUE, val |-> ZeroOwner]

RECURSIVE DecodeOwnersFrom(_, _, _)
DecodeOwnersFrom(items, i, acc) ==
    IF i > Len(items) THEN acc
    ELSE LET d == DecodeOwner(items[i])
         IN  DecodeOwnersFrom(items, i + 1,
                 [err |-> acc.err \/ d.err, val |-> Append(acc.val, d.val)])

\* json.Unmarshal([]byte(value), &owners) with owners a fresh []Owner:
\* [err, val]; a text that is no JSON value is refused before anything is
\* decoded
UnmarshalOwners(toks) ==
    LET p == ParseJSON(toks)
    IN  IF ~p.ok THEN [err |-> TRUE, val |-> <<>>]
        ELSE IF p.val.t = "arr"
        THEN DecodeOwnersFrom(p.val.items, 1, [err |-> FALSE, val |-> <<>>])
        ELSE IF p.val.t = "null" THEN [err |-> FALSE, val |-> <<>>]
        ELSE [err |-> TRUE, val |-> <<>>]

KeySlack == <<"s","l","a","c","k">>
KeyEmails == <<"e","m","a","i","l","s">>
KeyMsTeams == <<"m","s","_","t","e","a","m","s">>
ZeroNotifications == [Slack |-> <<>>, Emails |-> <<>>, MSTeams |-> <<>>]

RECURSIVE DecodeNotificationsFrom(_, _, _)
DecodeNotificationsFrom(members, i, acc) ==
    IF i > Len(members) THEN acc
    ELSE LET k == members[i].key
             v == members[i].val
             n == acc.val
             step ==
                IF EqualFold(k, KeySlack)
                THEN LET d == DecodeStrings(v, n.Slack)
                     IN  [err |-> d.err, val |-> [n EXCEPT !.Slack = d.val]]
                ELSE IF EqualFold(k, KeyEmails)
                THEN LET d == DecodeStrings(v, n.Emails)
                     IN  [err |-> d.err, val |-> [n EXCEPT !.Emails = d.val]]
                ELSE IF EqualFold(k, KeyMsTeams)
                THEN LET d == DecodeStrings(v, n.MSTeams)
                     IN  [err |-> d.err, val |-> [n EXCEPT !.MSTeams = d.val]]
                ELSE [err |-> FALSE, val |-> n]
         IN  DecodeNotificationsFrom(members, i + 1,
                 [err |-> acc.err \/ step.err, val |-> step.val])

\* json.Unmarshal([]byte(value), &notifications) with notifications a fresh
\* Notifications: [err, val]
UnmarshalNotifications(toks) ==
    LET p == ParseJSON(toks)
    IN  IF ~p.ok THEN [err |-> TRUE, val |-> ZeroNotifications]
        ELSE IF p.val.t = "obj"
        THEN DecodeNotificationsFrom(p.val.members, 1,
                 [err |-> FALSE, val |-> ZeroNotifications])
        ELSE IF p.val.t = "null" THEN [err |-> FALSE, val |-> ZeroNotifications]
        ELSE [err |-> TRUE, val |-> ZeroNotifications]

(***************************************************************************)
(* Collector: annotation resolver, converter, skip filter, normalizer.     *)
(***************************************************************************)
GetOrDefaultBool(m, name, default_) ==
    LET success == Has(m, name)
        parsed == ParseBool(m.kv[name])
    IN  IF ~success \/ parsed.err THEN default_ ELSE parsed.value

\* mutant of GetOrDefaultString: the empty value not replaced
GetOrDefaultStringKeepEmpty(m, name, default_) ==
    IF Has(m, name) THEN m.kv[name] ELSE default_

GetOrDefaultString(m, name, default_) ==
    LET value == IF Has(m, name) THEN m.kv[name] ELSE default_
    IN  IF Len(value) = 0 THEN default_ ELSE value

\* mutant of GetOrDefaultInt64: the parse error not looked at
GetOrDefaultInt64Unchecked(m, name, default_) ==
    IF ~Has(m, name) THEN default_ ELSE ParseInt(m.kv[name]).value

GetOrDefaultInt64(m, name, default_) ==
    LET success == Has(m, name)
        parsed == ParseInt(m.kv[name])
    IN  IF ~success \/ parsed.err # "" THEN default_ ELSE parsed.value

\* mutant of GetOrDefaultStringSlice: the empty value taken as absent
GetOrDefaultStringSliceNonEmpty(m, name, default_) ==
    IF Has(m, name) /\ m.kv[name] # <<>> THEN Split(m.kv[name], ",")
    ELSE default_

GetOrDefaultStringSlice(m, name, default_) ==
    IF Has(m, name) THEN Split(m.kv[name], ",") ELSE default_

\* mutant of GetOrDefaultOwners: what was decoded before the error is kept
GetOrDefaultOwnersPartial(tags, key, defaultValue) ==
    IF ~Has(tags, key) \/ tags.kv[key] = <<>> THEN defaultValue
    ELSE LET u == UnmarshalOwners(tags.kv[key])
         IN  IF u.err /\ u.val = <<>> THEN defaultValue ELSE u.val

GetOrDefaultOwners(tags, key, defaultValue) ==
    IF ~Has(tags, key) \/ tags.kv[key] = <<>> THEN defaultValue
    ELSE LET u == UnmarshalOwners(tags.kv[key])
         IN  IF u.err THEN defaultValue ELSE u.val

\* mutant of GetOrDefaultNotifications: an empty decoded sub-list falls back
\* to the default's sub-list
GetOrDefaultNotificationsMerged(tags, key, defaultValue) ==
    IF ~Has(tags, key) \/ tags.kv[key] = <<>> THEN defaultValue
    ELSE LET u == UnmarshalNotifications(tags.kv[key])
             pick(a, b) == IF a = <<>> THEN b ELSE a
         IN  IF u.err THEN defaultValue
             ELSE [Slack |-> pick(u.val.Slack, defaultValue.Slack),
                   Emails |-> pick(u.val.Emails, defaultValue.Emails),
                   MSTeams |-> pick(u.val.MSTeams, defaultValue.MSTeams)]

GetOrDefaultNotifications(tags, key, defaultValue) ==
    IF ~Has(tags, key) \/ tags.kv[key] = <<>> THEN defaultValue
    ELSE LET u == UnmarshalNotifications(tags.kv[key])
         IN  IF u.err THEN defaultValue ELSE u.val

\* mutants of convertK8ImageToCollectorImage: the team read under the base
\* prefix, and the application name falling back on the defaults
convertK8ImageTeamUnderBase(img, dflt, names) ==
    LET tags == IF img.Labels.nil THEN img.Annotations
                ELSE MapsCopy(img.Labels, img.Annotations)
    IN  [Namespace |-> img.NamespaceName,
         Image |-> img.Image,
         ImageId |-> img.ImageId,
         Environment |->
            GetOrDefaultString(tags, names.Base \o "environment",
                dflt.Environment),
         Product |->
            GetOrDefaultString(tags, names.Base \o "product",
                dflt.Product),
         Description |->
            GetOrDefaultString(tags, names.Base \o "description",
                dflt.Description),
         AppKubernetesIoName |->
            GetOrDefaultString(tags, "app.kubernetes.io/name", <<>>),
         AppKubernetesIoVersion |->
            GetOrDefaultString(tags, "app.kubernetes.io/version", <<>>),
         ContainerType |->
            GetOrDefaultString(tags, names.Base \o "container-type",
                dflt.ContainerType),
         Skip |->
            GetOrDefaultBool(tags, names.Scans \o "skip",
                dflt.Skip),
         NamespaceFilter |->
            GetOrDefaultString(tags, names.Scans \o "namespace-filter",
                dflt.NamespaceFilter),
         NamespaceFilterNegated |->
            GetOrDefaultString(tags, names.Scans \o "negated_namespace_filter",
                dflt.NamespaceFilterNegated),
         EngagementTags |->
            GetOrDefaultStringSlice(tags, names.DefectDojo \o "engagement-tags",
                dflt.EngagementTags),
         Team |->
            GetOrDefaultString(tags, names.Base \o "team",
                dflt.Team),
         TeamUuid |->
            GetOrDefaultString(tags, names.Contact \o "team_uuid",
                dflt.TeamUuid),
         Slack |->
            GetOrDefaultString(tags, names.Contact \o "slack",
                dflt.Slack),
         Email |->
            GetOrDefaultString(tags, names.Contact \o "email",
                dflt.Email),
         Owners |->
            GetOrDefaultOwners(tags, names.Contact \o "owners",
                dflt.Owners),
         IsScanBaseimageLifetime |->
            GetOrDefaultBool(tags, names.Scans \o "is-scan-baseimage-lifetime",
                dflt.IsScanBaseimageLifetime),
         IsScanDependencyCheck |->
            GetOrDefaultBool(tags, names.Scans \o "is-scan-dependency-check",
                dflt.IsScanDependencyCheck),
         IsScanDependencyTrack |->
            GetOrDefaultBool(tags, names.Scans \o "is-scan-dependency-track",
                dflt.IsScanDependencyTrack),
         IsScanDistroless |->
            GetOrDefaultBool(tags, names.Scans \o "is-scan-distroless",
                dflt.IsScanDistroless),
         IsScanLifetime |->
            GetOrDefaultBool(tags, names.Scans \o "is-scan-lifetime",
                dflt.IsScanLifetime),
         IsScanMalware |->
            GetOrDefaultBool(tags, names.Scans \o "is-scan-malware",
                dflt.IsScanMalware),
         IsScanNewVersion |->
            GetOrDefaultBool(tags, names.Scans \o "is-scan-new-version",
                dflt.IsScanNewVersion),
         IsScanRunAsRoot |->
            GetOrDefaultBool(tags, names.Scans \o "is-scan-runasroot",
                dflt.IsScanRunAsRoot),
         IsPotentiallyRunningAsRoot |->
            GetOrDefaultBool(tags, names.Scans \o "is-scan-potentially-running-as-root",
                dflt.IsPotentiallyRunningAsRoot),
         IsScanRunAsPrivileged |->
            GetOrDefaultBool(tags, names.Scans \o "is-scan-run-as-privileged",
                dflt.IsScanRunAsPrivileged),
         IsPotentiallyRunningAsPrivileged |->
            GetOrDefaultBool(tags, names.Scans \o "is-scan-potentially-running-as-privileged",
                dflt.IsPotentiallyRunningAsPrivileged),
         ScanLifetimeMaxDays |->
            GetOrDefaultInt64(tags, names.Scans \o "scan-lifetime-max-days",
                dflt.ScanLifetimeMaxDays)]

convertK8ImageAppNameDefaulted(img, dflt, names) ==
    LET tags == IF img.Labels.nil THEN img.Annotations
                ELSE MapsCopy(img.Labels, img.Annotations)
    IN  [Namespace |-> img.NamespaceName,
         Image |-> img.Image,
         ImageId |-> img.ImageId,
         Environment |->
            GetOrDefaultString(tags, names.Base \o "environment",
                dflt.Environment),
         Product |->
            GetOrDefaultString(tags, names.Base \o "product",
                dflt.Product),
         Description |->
            GetOrDefaultString(tags, names.Base \o "description",
                dflt.Description),
         AppKubernetesIoName |->
            GetOrDefaultString(tags, "app.kubernetes.io/name", dflt.AppKubernetesIoName),
         AppKubernetesIoVersion |->
            GetOrDefaultString(tags, "app.kubernetes.io/version", <<>>),
         ContainerType |->
            GetOrDefaultString(tags, names.Base \o "container-type",
                dflt.ContainerType),
         Skip |->
            GetOrDefaultBool(tags, names.Scans \o "skip",
                dflt.Skip),
         NamespaceFilter |->
            GetOrDefaultString(tags, names.Scans \o "namespace-filter",
                dflt.NamespaceFilter),
         NamespaceFilterNegated |->
            GetOrDefaultString(tags, names.Scans \o "negated_namespace_filter",
                dflt.NamespaceFilterNegated),
         EngagementTags |->
            GetOrDefaultStringSlice(tags, names.DefectDojo \o "engagement-tags",
                dflt.EngagementTags),
         Team |->
            GetOrDefaultString(tags, names.Contact \o "team",
                dflt.Team),
         TeamUuid |->
            GetOrDefaultString(tags, names.Contact \o "team_uuid",
                dflt.TeamUuid),
         Slack |->
            GetOrDefaultString(tags, names.Contact \o "slack",
                dflt.Slack),
         Email |->
            GetOrDefaultString(tags, names.Contact \o "email",
                dflt.Email),
         Owners |->
            GetOrDefaultOwners(tags, names.Contact \o "owners",
                dflt.Owners),
         IsScanBaseimageLifetime |->
            GetOrDefaultBool(tags, names.Scans \o "is-scan-baseimage-lifetime",
                dflt.IsScanBaseimageLifetime),
         IsScanDependencyCheck |->
            GetOrDefaultBool(tags, names.Scans \o "is-scan-dependency-check",
                dflt.IsScanDependencyCheck),
         IsScanDependencyTrack |->
            GetOrDefaultBool(tags, names.Scans \o "is-scan-dependency-track",
                dflt.IsScanDependencyTrack),
         IsScanDistroless |->
            GetOrDefaultBool(tags, names.Scans \o "is-scan-distroless",
                dflt.IsScanDistroless),
         IsScanLifetime |->
            GetOrDefaultBool(tags, names.Scans \o "is-scan-lifetime",
                dflt.IsScanLifetime),
         IsScanMalware |->
            GetOrDefaultBool(tags, names.Scans \o "is-scan-malware",
                dflt.IsScanMalware),
         IsScanNewVersion |->
            GetOrDefaultBool(tags, names.Scans \o "is-scan-new-version",
                dflt.IsScanNewVersion),
         IsScanRunAsRoot |->
            GetOrDefaultBool(tags, names.Scans \o "is-scan-runasroot",
                dflt.IsScanRunAsRoot),
         IsPotentiallyRunningAsRoot |->
            GetOrDefaultBool(tags, names.Scans \o "is-scan-potentially-running-as-root",
                dflt.IsPotentiallyRunningAsRoot),
         IsScanRunAsPrivileged |->
            GetOrDefaultBool(tags, names.Scans \o "is-scan-run-as-privileged",
                dflt.IsScanRunAsPrivileged),
         IsPotentiallyRunningAsPrivileged |->
            GetOrDefaultBool(tags, names.Scans \o "is-scan-potentially-running-as-privileged",
                dflt.IsPotentiallyRunningAsPrivileged),
         ScanLifetimeMaxDays |->
            GetOrDefaultInt64(tags, names.Scans \o "scan-lifetime-max-days",
                dflt.ScanLifetimeMaxDays)]

convertK8ImageToCollectorImage(img, dflt, names) ==
    LET tags == IF img.Labels.nil THEN img.Annotations
                ELSE MapsCopy(img.Labels, img.Annotations)
    IN  [Namespace |-> img.NamespaceName,
         Image |-> img.Image,
         ImageId |-> img.ImageId,
         Environment |->
            GetOrDefaultString(tags, names.Base \o "environment",
                dflt.Environment),
         Product |->
            GetOrDefaultString(tags, names.Base \o "product",
                dflt.Product),
         Description |->
            GetOrDefaultString(tags, names.Base \o "description",
                dflt.Description),
         AppKubernetesIoName |->
            GetOrDefaultString(tags, "app.kubernetes.io/name", <<>>),
         AppKubernetesIoVersion |->
            GetOrDefaultString(tags, "app.kubernetes.io/version", <<>>),
         ContainerType |->
            GetOrDefaultString(tags, names.Base \o "container-type",
                dflt.ContainerType),
         Skip |->
            GetOrDefaultBool(tags, names.Scans \o "skip",
                dflt.Skip),
         NamespaceFilter |->
            GetOrDefaultString(tags, names.Scans \o "namespace-filter",
                dflt.NamespaceFilter),
         NamespaceFilterNegated |->
            GetOrDefaultString(tags, names.Scans \o "negated_namespace_filter",
                dflt.NamespaceFilterNegated),
         EngagementTags |->
            GetOrDefaultStringSlice(tags, names.DefectDojo \o "engagement-tags",
                dflt.EngagementTags),
         Team |->
            GetOrDefaultString(tags, names.Contact \o "team",
                dflt.Team),
         TeamUuid |->
            GetOrDefaultString(tags, names.Contact \o "team_uuid",
                dflt.TeamUuid),
         Slack |->
            GetOrDefaultString(tags, names.Contact \o "slack",
                dflt.Slack),
         Email |->
            GetOrDefaultString(tags, names.Contact \o "email",
                dflt.Email),
         Owners |->
            GetOrDefaultOwners(tags, names.Contact \o "owners",
                dflt.Owners),
         IsScanBaseimageLifetime |->
            GetOrDefaultBool(tags, names.Scans \o "is-scan-baseimage-lifetime",
                dflt.IsScanBaseimageLifetime),
         IsScanDependencyCheck |->
            GetOrDefaultBool(tags, names.Scans \o "is-scan-dependency-check",
                dflt.IsScanDependencyCheck),
         IsScanDependencyTrack |->
            GetOrDefaultBool(tags, names.Scans \o "is-scan-dependency-track",
                dflt.IsScanDependencyTrack),
         IsScanDistroless |->
            GetOrDefaultBool(tags, names.Scans \o "is-scan-distroless",
                dflt.IsScanDistroless),
         IsScanLifetime |->
            GetOrDefaultBool(tags, names.Scans \o "is-scan-lifetime",
                dflt.IsScanLifetime),
         IsScanMalware |->
            GetOrDefaultBool(tags, names.Scans \o "is-scan-malware",
                dflt.IsScanMalware),
         IsScanNewVersion |->
            GetOrDefaultBool(tags, names.Scans \o "is-scan-new-version",
                dflt.IsScanNewVersion),
         IsScanRunAsRoot |->
            GetOrDefaultBool(tags, names.Scans \o "is-scan-runasroot",
                dflt.IsScanRunAsRoot),
         IsPotentiallyRunningAsRoot |->
            GetOrDefaultBool(tags, names.Scans \o "is-scan-potentially-running-as-root",
                dflt.IsPotentiallyRunningAsRoot),
         IsScanRunAsPrivileged |->
            GetOrDefaultBool(tags, names.Scans \o "is-scan-run-as-privileged",
                dflt.IsScanRunAsPrivileged),
         IsPotentiallyRunningAsPrivileged |->
            GetOrDefaultBool(tags, names.Scans \o "is-scan-potentially-running-as-privileged",
                dflt.IsPotentiallyRunningAsPrivileged),
         ScanLifetimeMaxDays |->
            GetOrDefaultInt64(tags, names.Scans \o "scan-lifetime-max-days",
                dflt.ScanLifetimeMaxDays)]

\* mutant of the loop over runConfig.ImageFilter: a pattern that does not
\* compile ends the loop
RECURSIVE isSkipImageByImageFilterStopOnError(_, _, _)
isSkipImageByImageFilterStopOnError(c, rc, i) ==
    IF i > Len(rc.ImageFilter) THEN FALSE
    ELSE LET m == MatchString(rc.ImageFilter[i], c.Image)
         IN  IF m.err THEN FALSE
             ELSE IF m.matched THEN TRUE
             ELSE isSkipImageByImageFilterStopOnError(c, rc, i + 1)

\* the loop over runConfig.ImageFilter, from the i-th pattern on
RECURSIVE isSkipImageByImageFilterFrom(_, _, _)
isSkipImageByImageFilterFrom(c, rc, i) ==
    IF i > Len(rc.ImageFilter) THEN FALSE
    ELSE LET m == MatchString(rc.ImageFilter[i], c.Image)
         IN  IF m.matched /\ ~m.err THEN TRUE
             ELSE isSkipImageByImageFilterFrom(c, rc, i + 1)

isSkipImageByImageFilter(c, rc) == isSkipImageByImageFilterFrom(c, rc, 1)

\* mutants of isSkipImageByNamespace: the empty negated filter not guarded,
\* and the polarity of the older version (a non-match skips)
isSkipImageByNamespaceUnguarded(c) ==
    LET isNamespaceFilter ==
            IF c.NamespaceFilter = <<>> THEN FALSE
            ELSE MatchString(c.NamespaceFilter, c.Namespace).matched
        isNamespaceFilterNegated ==
            MatchString(c.NamespaceFilterNegated, c.Namespace).matched
    IN  c.Skip \/ isNamespaceFilter \/ isNamespaceFilterNegated

isSkipImageByNamespaceNonMatch(c) ==
    LET isNamespaceFilter ==
            IF c.NamespaceFilter = <<>> THEN FALSE
            ELSE MatchString(c.NamespaceFilter, c.Namespace).matched
        isNamespaceFilterNegated ==
            IF c.NamespaceFilterNegated = <<>> THEN FALSE
            ELSE ~MatchString(c.NamespaceFilterNegated, c.Namespace).matched
    IN  c.Skip \/ isNamespaceFilter \/ isNamespaceFilterNegated

isSkipImageByNamespace(c) ==
    LET isNamespaceFilter ==
            IF c.NamespaceFilter = <<>> THEN FALSE
            ELSE MatchString(c.NamespaceFilter, c.Namespace).matched
        isNamespaceFilterMatch ==
            MatchString(c.NamespaceFilterNegated, c.Namespace).matched
        isNamespaceFilterNegated ==
            IF c.NamespaceFilterNegated # <<>> THEN isNamespaceFilterMatch
            ELSE FALSE
    IN  c.Skip \/ isNamespaceFilter \/ isNamespaceFilterNegated

\* mutant of isSkipImage: the image filter left out
isSkipImageNamespaceOnly(c, rc) == isSkipImageByNamespace(c)

isSkipImage(c, rc) == isSkipImageByNamespace(c) \/ isSkipImageByImageFilter(c, rc)

cleanCollectorImageId(c) ==
    LET imageId == RemoveAll(c.ImageId, DockerPullable)
    IN  IF imageId = <<>> THEN c.Image ELSE imageId

cleanCollectorImage(c, rc) ==
    LET c1 == [c EXCEPT !.Image = RemoveAll(c.Image, DockerPullable)]
        c2 == [c1 EXCEPT !.ImageId = cleanCollectorImageId(c1)]
    IN  [c2 EXCEPT !.Skip = isSkipImage(c2, rc)]

(***************************************************************************)
(* Inputs of the collector.                                                *)
(***************************************************************************)
DefaultAnnotationNames ==
    [Base |-> "sdase.org/", Scans |-> "clusterscanner.sdase.org/",
     Contact |-> "contact.sdase.org/", DefectDojo |-> "defectdojo.sdase.org/"]

KeySkip == "clusterscanner.sdase.org/skip"
KeyNamespaceFilter == "clusterscanner.sdase.org/namespace-filter"
KeyNamespaceFilterNegated == "clusterscanner.sdase.org/negated_namespace_filter"

NsPay == <<"p","a","y">>
NsApp == <<"a","p">>
Namespaces == {NsPay, NsApp}

PatStartP == <<"^","p">>
PatY == <<"y">>
PatA == <<"a">>
PatStartA == <<"^","a">>
PatPayAny == <<"^","p","a","y",".","*">>
PatBad == <<"(">>

Tag(k, v) == MapOf([x \in {k} |-> v])

LabelMaps ==
    {NilMap,
     Tag(KeySkip, <<"t","r","u","e">>),
     Tag(KeySkip, <<"f","a","l","s","e">>),
     Tag(KeySkip, <<"y","e","s">>),
     Tag(KeyNamespaceFilter, PatStartP),
     Tag(KeyNamespaceFilterNegated, PatA)}

AnnotationMaps ==
    {NilMap,
     Tag(KeySkip, <<"0">>),
     Tag(KeyNamespaceFilter, PatBad),
     Tag(KeyNamespaceFilter, PatPayAny),
     Tag(KeyNamespaceFilterNegated, PatY),
     Tag(KeyNamespaceFilterNegated, <<>>)}

Images == {DockerPullable \o NsPay, NsApp}
ImageIds == {<<>>, DockerPullable \o <<"i","d">>}

K8Images ==
    [Image : Images, ImageId : ImageIds, NamespaceName : Namespaces,
     Labels : LabelMaps, Annotations : AnnotationMaps]

\* the zero value of CollectorImage
ZeroCollectorImage ==
    [Namespace |-> <<>>, Image |-> <<>>, ImageId |-> <<>>,
     Environment |-> <<>>, Product |-> <<>>, Description |-> <<>>,
     AppKubernetesIoName |-> <<>>, AppKubernetesIoVersion |-> <<>>,
     ContainerType |-> <<>>, Skip |-> FALSE, NamespaceFilter |-> <<>>,
     NamespaceFilterNegated |-> <<>>, EngagementTags |-> <<>>,
     Team |-> <<>>, TeamUuid |-> <<>>, Slack |-> <<>>, Email |-> <<>>,
     Owners |-> <<>>,
     IsScanBaseimageLifetime |-> FALSE, IsScanDependencyCheck |-> FALSE,
     IsScanDependencyTrack |-> FALSE, IsScanDistroless |-> FALSE,
     IsScanLifetime |-> FALSE, IsScanMalware |-> FALSE,
     IsScanNewVersion |-> FALSE, IsScanRunAsRoot |-> FALSE,
     IsPotentiallyRunningAsRoot |-> FALSE, IsScanRunAsPrivileged |-> FALSE,
     IsPotentiallyRunningAsPrivileged |-> FALSE,
     ScanLifetimeMaxDays |-> I64Zero]

DefaultsSet ==
    {[ZeroCollectorImage EXCEPT !.Skip = sk, !.NamespaceFilter = nf,
                                !.NamespaceFilterNegated = nfn] :
        sk \in BOOLEAN, nf \in {<<>>, PatA}, nfn \in {<<>>, PatStartP}}

FilterPatterns == {PatY, PatStartA, PatBad}
RunConfigs == [ImageFilter : SeqsUpTo(FilterPatterns, MaxFilters)]

NoImage == ZeroCollectorImage
NoK8Image ==
    [Image |-> <<>>, ImageId |-> <<>>, NamespaceName |-> <<>>,
     Labels |-> NilMap, Annotations |-> NilMap]

(***************************************************************************)
(* Inputs of the normalizer: image references with the legacy prefix in    *)
(* every position, the empty record CreateImageAndAppend can return, and   *)
(* filter lists of up to MaxPatterns patterns.                             *)
(***************************************************************************)
\* "docker-" and "pullable://" around one occurrence of the prefix: removing
\* the occurrence joins them into a new one
JoinedPrefix ==
    <<"d","o","c","k","e","r","-">> \o DockerPullable
        \o <<"p","u","l","l","a","b","l","e",":","/","/">>

CleanImages ==
    {<<>>, DockerPullable, NsApp, DockerPullable \o NsApp,
     NsApp \o DockerPullable \o NsPay, JoinedPrefix \o NsApp}
CleanImageIds ==
    {<<>>, DockerPullable, DockerPullable \o <<"i","d">>,
     JoinedPrefix \o <<"i","d">>}

CleanAnnotationMaps ==
    {NilMap, Tag(KeyNamespaceFilter, PatBad),
     Tag(KeyNamespaceFilterNegated, PatBad)}

CleanK8Images ==
    [Image : CleanImages, ImageId : CleanImageIds, NamespaceName : {NsApp},
     Labels : {NilMap}, Annotations : CleanAnnotationMaps]

CleanRunConfigs == [ImageFilter : SeqsUpTo(FilterPatterns, MaxPatterns)]

(***************************************************************************)
(* Inputs of the converter: prefix sets, defaults and tag maps that name   *)
(* every field.                                                            *)
(***************************************************************************)
CustomAnnotationNames ==
    [Base |-> "x/", Scans |-> "x/", Contact |-> "y/", DefectDojo |-> "x/"]
AppAnnotationNames ==
    [Base |-> "app.kubernetes.io/", Scans |-> "app.kubernetes.io/",
     Contact |-> "app.kubernetes.io/", DefectDojo |-> "app.kubernetes.io/"]
AnnotationNameSets ==
    {DefaultAnnotationNames, CustomAnnotationNames, AppAnnotationNames}

OwnerAlice ==
    [Role |-> <<"d","e","v">>, Uuid |-> <<"u","1">>, Name |-> <<"a","l">>]
OwnerBob ==
    [Role |-> <<"o","p","s">>, Uuid |-> <<"u","2">>, Name |-> <<"b","o">>]

\* the tokens of [{"role":"dev","uuid":"u1","name":"al"}]
JsonAlice ==
    <<Tok("["), Tok("{"), Str(KeyRole), Tok(":"), Str(<<"d","e","v">>), Tok(","),
      Str(KeyUuid), Tok(":"), Str(<<"u","1">>), Tok(","),
      Str(KeyName), Tok(":"), Str(<<"a","l">>), Tok("}"), Tok("]")>>
\* the tokens of not-valid-json
JsonBad == <<[k |-> "bad", s |-> <<"n","o","t","-","v","a","l","i","d","-","j","s","o","n">>]>>

FullDefaults ==
    [Namespace |-> <<>>, Image |-> <<>>, ImageId |-> <<>>,
     Environment |-> <<"d","E">>, Product |-> <<"d","P">>,
     Description |-> <<"d","D">>,
     AppKubernetesIoName |-> <<"d","N">>,
     AppKubernetesIoVersion |-> <<"d","V">>,
     ContainerType |-> <<"d","C">>, Skip |-> FALSE,
     NamespaceFilter |-> <<"d","F">>,
     NamespaceFilterNegated |-> <<"d","G">>,
     EngagementTags |-> <<<<"d","T">>>>,
     Team |-> <<"d","M">>, TeamUuid |-> <<"d","U">>,
     Slack |-> <<"d","S">>, Email |-> <<"d","L">>,
     Owners |-> <<OwnerBob>>,
     IsScanBaseimageLifetime |-> TRUE, IsScanDependencyCheck |-> FALSE,
     IsScanDependencyTrack |-> TRUE, IsScanDistroless |-> FALSE,
     IsScanLifetime |-> TRUE, IsScanMalware |-> FALSE,
     IsScanNewVersion |-> TRUE, IsScanRunAsRoot |-> FALSE,
     IsPotentiallyRunningAsRoot |-> TRUE, IsScanRunAsPrivileged |-> FALSE,
     IsPotentiallyRunningAsPrivileged |-> TRUE,
     ScanLifetimeMaxDays |-> I64(FALSE, <<"1","4">>)]

FieldDefaults == {ZeroCollectorImage, FullDefaults}

KeyAppName == "app.kubernetes.io/name"
KeyAppVersion == "app.kubernetes.io/version"

\* every field named with a well-formed value, under the prefixes n
TagsAll(n) ==
    MapOf((n.Base \o "environment" :> <<"t","E">>)
       @@ (n.Base \o "product" :> <<"t","P">>)
       @@ (n.Base \o "description" :> <<"t","D">>)
       @@ (KeyAppName :> <<"t","N">>)
       @@ (KeyAppVersion :> <<"t","V">>)
       @@ (n.Base \o "container-type" :> <<"t","C">>)
       @@ (n.Scans \o "skip" :> <<"t","r","u","e">>)
       @@ (n.Scans \o "namespace-filter" :> PatY)
       @@ (n.Scans \o "negated_namespace_filter" :> PatStartP)
       @@ (n.DefectDojo \o "engagement-tags" :> <<"a",",","b">>)
       @@ (n.Contact \o "team" :> <<"t","M">>)
       @@ (n.Contact \o "team_uuid" :> <<"t","U">>)
       @@ (n.Contact \o "slack" :> <<"t","S">>)
       @@ (n.Contact \o "email" :> <<"t","L">>)
       @@ (n.Contact \o "owners" :> JsonAlice)
       @@ (n.Scans \o "is-scan-baseimage-lifetime" :> <<"f","a","l","s","e">>)
       @@ (n.Scans \o "is-scan-dependency-check" :> <<"t","r","u","e">>)
       @@ (n.Scans \o "is-scan-dependency-track" :> <<"0">>)
       @@ (n.Scans \o "is-scan-distroless" :> <<"1">>)
       @@ (n.Scans \o "is-scan-lifetime" :> <<"F">>)
       @@ (n.Scans \o "is-scan-malware" :> <<"T">>)
       @@ (n.Scans \o "is-scan-new-version" :> <<"F","a","l","s","e">>)
       @@ (n.Scans \o "is-scan-runasroot" :> <<"T","r","u","e">>)
       @@ (n.Scans \o "is-scan-potentially-running-as-root" :> <<"f">>)
       @@ (n.Scans \o "is-scan-run-as-privileged" :> <<"t">>)
       @@ (n.Scans \o "is-scan-potentially-running-as-privileged" :> <<"F","A","L","S","E">>)
       @@ (n.Scans \o "scan-lifetime-max-days" :> <<"3","0">>))

\* values that do not parse as the type of their field, or are empty
TagsMalformed(n) ==
    MapOf((n.Base \o "environment" :> <<>>)
       @@ (KeyAppName :> <<>>)
       @@ (n.Scans \o "skip" :> <<"y","e","s">>)
       @@ (n.DefectDojo \o "engagement-tags" :> <<>>)
       @@ (n.Contact \o "owners" :> JsonBad)
       @@ (n.Scans \o "is-scan-lifetime" :> <<>>)
       @@ (n.Scans \o "is-scan-malware" :> <<"o","n">>)
       @@ (n.Scans \o "scan-lifetime-max-days" :> <<"1",".","2","3">>))

\* one malformed value next to well-formed ones
TagsOneBad(n) ==
    MapOf((n.Scans \o "skip" :> <<"y","e","s">>)
       @@ (n.Contact \o "team" :> <<"t","M">>)
       @@ (n.Scans \o "is-scan-malware" :> <<"t","r","u","e">>)
       @@ (KeyAppVersion :> <<"t","V">>))

TagsIntOutOfRange(n) ==
    MapOf((n.Scans \o "scan-lifetime-max-days" :>
              <<"9","2","2","3","3","7","2","0","3","6","8","5","4","7","7","5","8","0","8">>)
       @@ (n.Base \o "product" :> <<"t","P">>))

TagsOverride(n) ==
    MapOf((n.Contact \o "team" :> <<"a","M">>)
       @@ (KeyAppName :> <<"a","N">>)
       @@ (n.Scans \o "skip" :> <<"f","a","l","s","e">>))

FieldLabelMaps(n) ==
    {NilMap, MapOf(EmptyMap), TagsAll(n), TagsMalformed(n), TagsOneBad(n),
     TagsIntOutOfRange(n)}
FieldAnnotationMaps(n) == {NilMap, TagsOverride(n), TagsOneBad(n)}

FieldK8Images(n) ==
    [Image : {NsApp}, ImageId : {<<>>}, NamespaceName : {NsPay},
     Labels : FieldLabelMaps(n), Annotations : FieldAnnotationMaps(n)]

(***************************************************************************)
(* Actions of the collector: the body of the loop of ConvertImages.        *)
(***************************************************************************)
Convert ==
    /\ pc = "raw"
    /\ ci' = convertK8ImageToCollectorImage(k8Image, defaults, annotationNames)
    /\ pc' = "converted"
    /\ UNCHANGED <<k8Image, annotationNames, defaults, runConfig, pre, sinkVars,
                   resVars, runVars>>

Clean ==
    /\ pc = "converted"
    /\ pre' = ci
    /\ ci' = cleanCollectorImage(ci, runConfig)
    /\ pc' = "clean"
    /\ UNCHANGED <<k8Image, annotationNames, defaults, runConfig, sinkVars,
                   resVars, runVars>>

\* cleanCollectorImage applied to a record it has already normalized
CleanAgain ==
    /\ pc = "clean"
    /\ pre' = ci
    /\ ci' = cleanCollectorImage(ci, runConfig)
    /\ pc' = "cleanAgain"
    /\ UNCHANGED <<k8Image, annotationNames, defaults, runConfig, sinkVars,
                   resVars, runVars>>

(***************************************************************************)
(* Inputs of the resolvers: one key, tag maps that lack it, hold it or     *)
(* hold another key, and defaults of each type.                            *)
(***************************************************************************)
ResolverKey == "k"
OtherKey == "other"

StringValues == {<<>>, <<"v">>, <<"a","b">>, <<" ">>}
StringDefaults == {<<>>, <<"d">>}

BoolValues ==
    {<<>>, <<"t","r","u","e">>, <<"f","a","l","s","e">>, <<"1">>, <<"0">>,
     <<"t">>, <<"F">>, <<"T","R","U","E">>, <<"y","e","s">>,
     <<"t","R","u","E">>, <<"n","o">>, <<"2">>}

Int64Values ==
    {<<>>, <<"4","2">>, <<"-","7">>, <<"+","5">>, <<"0","0","7">>,
     <<"-","0">>, <<"1",".","2","3">>, <<"a","b","c">>, <<"1","2","a">>,
     <<"-">>, <<" ","5">>,
     <<"9","2","2","3","3","7","2","0","3","6","8","5","4","7","7","5","8","0","7">>,
     <<"9","2","2","3","3","7","2","0","3","6","8","5","4","7","7","5","8","0","8">>,
     <<"-","9","2","2","3","3","7","2","0","3","6","8","5","4","7","7","5","8","0","8">>,
     <<"-","9","2","2","3","3","7","2","0","3","6","8","5","4","7","7","5","8","0","9">>,
     <<"9","9","9","9","9","9","9","9","9","9","9","9","9","9","9","9","9","9","9","9">>}
Int64Defaults == {I64Zero, I64(FALSE, <<"5">>), I64(TRUE, <<"1">>)}

SliceValues ==
    {<<>>, <<"a">>, <<"a",",","b">>, <<" ","a",","," ","b">>, <<",">>,
     <<"a",",",",","b">>, <<"a",",","b",",">>}
SliceDefaults == {<<>>, <<<<"d">>>>, <<<<"d">>, <<"e">>>>}

\* the tokens of [], null, {}, [{"name":"al"}], [{"ROLE":"dev","team":"x"}],
\* [{"role":1}], [{"name":"al"},"x"], [{ and [null]
OwnerValues ==
    {<<>>, JsonAlice, JsonBad,
     <<Tok("["), Tok("]")>>,
     <<Tok("null")>>,
     <<Tok("{"), Tok("}")>>,
     <<Tok("["), Tok("{"), Str(KeyName), Tok(":"), Str(<<"a","l">>), Tok("}"),
       Tok("]")>>,
     <<Tok("["), Tok("{"), Str(<<"R","O","L","E">>), Tok(":"), Str(<<"d","e","v">>),
       Tok(","), Str(<<"t","e","a","m">>), Tok(":"), Str(<<"x">>), Tok("}"),
       Tok("]")>>,
     <<Tok("["), Tok("{"), Str(KeyRole), Tok(":"), [k |-> "num", s |-> <<"1">>],
       Tok("}"), Tok("]")>>,
     <<Tok("["), Tok("{"), Str(KeyName), Tok(":"), Str(<<"a","l">>), Tok("}"),
       Tok(","), Str(<<"x">>), Tok("]")>>,
     <<Tok("["), Tok("{")>>,
     <<Tok("["), Tok("null"), Tok("]")>>}
OwnerDefaults == {<<>>, <<OwnerBob>>, <<OwnerBob, OwnerAlice>>}

\* the tokens of {}, null, [], {"slack":["#s"]},
\* {"slack":[],"emails":[],"ms_teams":[]},
\* {"slack":["#s"],"emails":["e1","e2"],"ms_teams":["t"]},
\* {"slack":"#s"}, {"msTeams":["t"]}, {"emails":["e1"],"slack":[7]} and
\* {"slack":["#s"]
NotificationValues ==
    {<<>>, JsonBad,
     <<Tok("{"), Tok("}")>>,
     <<Tok("null")>>,
     <<Tok("["), Tok("]")>>,
     <<Tok("{"), Str(KeySlack), Tok(":"), Tok("["), Str(<<"#","s">>), Tok("]"),
       Tok("}")>>,
     <<Tok("{"), Str(KeySlack), Tok(":"), Tok("["), Tok("]"), Tok(","),
       Str(KeyEmails), Tok(":"), Tok("["), Tok("]"), Tok(","),
       Str(KeyMsTeams), Tok(":"), Tok("["), Tok("]"), Tok("}")>>,
     <<Tok("{"), Str(KeySlack), Tok(":"), Tok("["), Str(<<"#","s">>), Tok("]"),
       Tok(","), Str(KeyEmails), Tok(":"), Tok("["), Str(<<"e","1">>), Tok(","),
       Str(<<"e","2">>), Tok("]"), Tok(","),
       Str(KeyMsTeams), Tok(":"), Tok("["), Str(<<"t">>), Tok("]"), Tok("}")>>,
     <<Tok("{"), Str(KeySlack), Tok(":"), Str(<<"#","s">>), Tok("}")>>,
     <<Tok("{"), Str(<<"m","s","T","e","a","m","s">>), Tok(":"), Tok("["), Str(<<"t">>),
       Tok("]"), Tok("}")>>,
     <<Tok("{"), Str(KeyEmails), Tok(":"), Tok("["), Str(<<"e","1">>), Tok("]"),
       Tok(","), Str(KeySlack), Tok(":"), Tok("["),
       [k |-> "num", s |-> <<"7">>], Tok("]"), Tok("}")>>,
     <<Tok("{"), Str(KeySlack), Tok(":"), Tok("["), Str(<<"#","s">>), Tok("]")>>}
NotificationDefaults ==
    {ZeroNotifications,
     [Slack |-> <<<<"#","d">>>>, Emails |-> <<>>, MSTeams |-> <<>>],
     [Slack |-> <<<<"#","d">>>>, Emails |-> <<<<"d","e">>>>,
      MSTeams |-> <<<<"d","t">>>>]}

\* the tag maps around the values vs: nil, empty, without the key, with it
TagMaps(vs) ==
    {NilMap, MapOf(EmptyMap)}
        \cup {Tag(OtherKey, v) : v \in vs}
        \cup {Tag(ResolverKey, v) : v \in vs}
        \cup {MapOf((ResolverKey :> v) @@ (OtherKey :> v)) : v \in vs}

Calls(fn, vs, ds) ==
    [fn : {fn}, m : TagMaps(vs), name : {ResolverKey}, default_ : ds]

NoCall == [fn |-> "none", m |-> NilMap, name |-> "", default_ |-> <<>>]
NoResult == [done |-> FALSE, value |-> <<>>]
Returned(v) == [done |-> TRUE, value |-> v]

(***************************************************************************)
(* Actions of the resolvers: the pending call is made.                     *)
(***************************************************************************)
ResolveString ==
    /\ call.fn = "GetOrDefaultString"
    /\ ~result.done
    /\ result' = Returned(GetOrDefaultString(call.m, call.name, call.default_))
    /\ UNCHANGED <<call, sinkVars, collVars, runVars>>

ResolveBool ==
    /\ call.fn = "GetOrDefaultBool"
    /\ ~result.done
    /\ result' = Returned(GetOrDefaultBool(call.m, call.name, call.default_))
    /\ UNCHANGED <<call, sinkVars, collVars, runVars>>

ResolveInt64 ==
    /\ call.fn = "GetOrDefaultInt64"
    /\ ~result.done
    /\ result' = Returned(GetOrDefaultInt64(call.m, call.name, call.default_))
    /\ UNCHANGED <<call, sinkVars, collVars, runVars>>

ResolveStringSlice ==
    /\ call.fn = "GetOrDefaultStringSlice"
    /\ ~result.done
    /\ result' =
          Returned(GetOrDefaultStringSlice(call.m, call.name, call.default_))
    /\ UNCHANGED <<call, sinkVars, collVars, runVars>>

ResolveOwners ==
    /\ call.fn = "GetOrDefaultOwners"
    /\ ~result.done
    /\ result' = Returned(GetOrDefaultOwners(call.m, call.name, call.default_))
    /\ UNCHANGED <<call, sinkVars, collVars, runVars>>

ResolveNotifications ==
    /\ call.fn = "GetOrDefaultNotifications"
    /\ ~result.done
    /\ result' =
          Returned(GetOrDefaultNotifications(call.m, call.name, call.default_))
    /\ UNCHANGED <<call, sinkVars, collVars, runVars>>

(***************************************************************************)
(* kubeclient: the workload enumerator.  The label and annotation maps of  *)
(* the listed objects are Go maps, shared by reference: a map lives on the *)
(* heap at an address, the nil map has address 0, and a raw record holds   *)
(* the addresses of its two maps.                                          *)
(***************************************************************************)
\* the map a freshly decoded object holds
Alloc(h, m) ==
    IF m.nil THEN [addr |-> 0, heap |-> h]
    ELSE [addr |-> Len(h) + 1, heap |-> Append(h, m.kv)]

Deref(h, a) == IF a = 0 THEN NilMap ELSE MapOf(h[a])

\* maps.Copy(dst, src) on a map that is not nil
CopyInto(h, dst, src) ==
    [h EXCEPT ![dst] = MapsCopy(Deref(h, dst), Deref(h, src)).kv]

ImageTypeJob == "job"
ImageTypeCronJob == "cronjob"
ImageTypeInitContainer == "init_container"
ImageTypeOther == "other"

\* Image{}
ZeroImage ==
    [Image |-> <<>>, ImageId |-> <<>>, NamespaceName |-> <<>>,
     Labels |-> 0, Annotations |-> 0, ImageType |-> ""]

NoFail == [ns |-> 0, call |-> "none"]
FailNamespaces == [ns |-> 0, call |-> "namespaces"]
FailAt(i, c) == [ns |-> i, call |-> c]
ListError == [fmt |-> "list failed", arg |-> <<>>]

RECURSIVE GetNamespacesFrom(_, _, _)
GetNamespacesFrom(items, i, acc) ==
    IF i > Len(items) THEN acc
    ELSE LET l == Alloc(acc.heap, items[i].Labels)
             a == Alloc(l.heap, items[i].Annotations)
             namespace == [Name |-> items[i].Name, Labels |-> l.addr,
                           Annotations |-> a.addr]
         IN  GetNamespacesFrom(items, i + 1,
                 [namespaces |-> Append(acc.namespaces, namespace),
                  heap |-> a.heap])

GetNamespaces(cl) ==
    IF cl.fail = FailNamespaces
    THEN [nil |-> TRUE, namespaces |-> <<>>, heap |-> <<>>, err |-> ListError]
    ELSE LET r == GetNamespacesFrom(cl.namespaces, 1,
                      [namespaces |-> <<>>, heap |-> <<>>])
         IN  [nil |-> FALSE, namespaces |-> r.namespaces, heap |-> r.heap,
              err |-> NoErr]

\* the merge of the tags of a workload with those of its namespace
MergeTags(h, own, ns) ==
    IF own = 0 THEN [addr |-> ns, heap |-> h]
    ELSE [addr |-> own, heap |-> CopyInto(h, own, ns)]

\* containerImageMap[container.Name] = container.Image, for each container
RECURSIVE ImageMapFrom(_, _, _)
ImageMapFrom(containers, i, m) ==
    IF i > Len(containers) THEN m
    ELSE ImageMapFrom(containers, i + 1,
             [n \in DOMAIN m \cup {containers[i].Name} |->
                 IF n = containers[i].Name THEN containers[i].Image
                 ELSE m[n]])

ImageMapOf(containers) == ImageMapFrom(containers, 1, EmptyMap)

\* the record CreateImageAndAppend returns; its delete is in StatusImages
CreateImageAndAppend(containerImageMap, status, namespace, labels, annotations, imageType) ==
    LET containerImage ==
            IF status.Name \in DOMAIN containerImageMap
            THEN containerImageMap[status.Name] ELSE <<>>
    IN  IF containerImage = <<>> /\ status.Image = <<>> THEN ZeroImage
        ELSE [Image |-> IF status.Image # <<>> THEN status.Image
                        ELSE containerImage,
              ImageId |-> status.ImageID,
              NamespaceName |-> namespace.Name,
              Labels |-> labels,
              Annotations |-> annotations,
              ImageType |-> imageType]

\* &Image{} != &image compares the addresses of two distinct variables
IsAppended(image) == TRUE

\* the loop over the statuses of a pod: [images, containerImageMap]
RECURSIVE StatusImages(_, _, _, _, _, _, _)
StatusImages(statuses, i, acc, namespace, labels, annotations, imageType) ==
    IF i > Len(statuses) THEN acc
    ELSE LET image == CreateImageAndAppend(acc.containerImageMap,
                          statuses[i], namespace, labels, annotations,
                          imageType)
             rest == [n \in DOMAIN acc.containerImageMap
                                \ {statuses[i].Name} |->
                         acc.containerImageMap[n]]
         IN  StatusImages(statuses, i + 1,
                 [images |-> IF IsAppended(image)
                             THEN Append(acc.images, image)
                             ELSE acc.images,
                  containerImageMap |-> rest],
                 namespace, labels, annotations, imageType)

\* the loop over the entries of containerImageMap that no status named; ord
\* is the order in which the Go runtime ranges over the map
RemainingImages(containerImageMap, ord, namespace, labels, annotations, imageType) ==
    LET names == SelectSeq(ord, LAMBDA n : n \in DOMAIN containerImageMap)
    IN  [i \in 1..Len(names) |->
            [Image |-> containerImageMap[names[i]],
             ImageId |-> <<>>,
             NamespaceName |-> namespace.Name,
             Labels |-> labels,
             Annotations |-> annotations,
             ImageType |-> imageType]]

\* the records of the containers of a job or a cron job
SpecImages(containers, namespace, labels, annotations, imageType) ==
    [i \in 1..Len(containers) |->
        [Image |-> containers[i].Image,
         ImageId |-> <<>>,
         NamespaceName |-> namespace.Name,
         Labels |-> labels,
         Annotations |-> annotations,
         ImageType |-> imageType]]

\* the body of the loop over the pods of a namespace
PodImages(pod, namespace, h, ord) ==
    LET ownL == Alloc(h, pod.Labels)
        ownA == Alloc(ownL.heap, pod.Annotations)
        l == MergeTags(ownA.heap, ownL.addr, namespace.Labels)
        a == MergeTags(l.heap, ownA.addr, namespace.Annotations)
        inits == StatusImages(pod.InitContainerStatuses, 1,
                     [images |-> <<>>,
                      containerImageMap |-> ImageMapOf(pod.InitContainers)],
                     namespace, l.addr, a.addr, ImageTypeInitContainer)
        others == StatusImages(pod.ContainerStatuses, 1,
                     [images |-> <<>>,
                      containerImageMap |-> ImageMapOf(pod.Containers)],
                     namespace, l.addr, a.addr, ImageTypeOther)
    IN  [images |->
            inits.images \o others.images
            \o RemainingImages(inits.containerImageMap, ord, namespace,
                   l.addr, a.addr, ImageTypeInitContainer)
            \o RemainingImages(others.containerImageMap, ord, namespace,
                   l.addr, a.addr, ImageTypeOther),
         heap |-> a.heap]

\* the body of the loop over the jobs (cron jobs) of a namespace
JobImages(job, namespace, h, imageType) ==
    LET ownL == Alloc(h, job.Labels)
        ownA == Alloc(ownL.heap, job.Annotations)
        l == MergeTags(ownA.heap, ownL.addr, namespace.Labels)
        a == MergeTags(l.heap, ownA.addr, namespace.Annotations)
    IN  [images |->
            SpecImages(job.Containers, namespace, l.addr, a.addr, imageType)
            \o SpecImages(job.InitContainers, namespace, l.addr, a.addr,
                   ImageTypeInitContainer),
         heap |-> a.heap]

WorkloadImages(kind, w, namespace, h, ord) ==
    IF kind = "pods" THEN PodImages(w, namespace, h, ord)
    ELSE IF kind = "jobs" THEN JobImages(w, namespace, h, ImageTypeJob)
    ELSE JobImages(w, namespace, h, ImageTypeCronJob)

RECURSIVE WorkloadsImages(_, _, _, _, _, _)
WorkloadsImages(kind, ws, i, namespace, acc, ord) ==
    IF i > Len(ws) THEN acc
    ELSE LET r == WorkloadImages(kind, ws[i], namespace, acc.heap, ord)
         IN  WorkloadsImages(kind, ws, i + 1, namespace,
                 [images |-> acc.images \o r.images, heap |-> r.heap], ord)

GetImagesFailed(h) ==
    [nil |-> TRUE, items |-> <<>>, heap |-> h, err |-> ListError]

\* the loop of GetImages over the namespaces, from namespace i on
RECURSIVE GetImagesFrom(_, _, _, _, _)
GetImagesFrom(cl, namespaces, i, acc, ord) ==
    IF i > Len(namespaces)
    THEN [nil |-> FALSE, items |-> acc.images, heap |-> acc.heap,
          err |-> NoErr]
    ELSE IF cl.fail = FailAt(i, "pods") THEN GetImagesFailed(acc.heap)
    ELSE LET pods == WorkloadsImages("pods", cl.namespaces[i].Pods, 1,
                         namespaces[i], acc, ord)
         IN  IF cl.fail = FailAt(i, "jobs") THEN GetImagesFailed(pods.heap)
             ELSE LET jobs == WorkloadsImages("jobs", cl.namespaces[i].Jobs,
                                  1, namespaces[i], pods, ord)
                  IN  IF cl.fail = FailAt(i, "cronjobs")
                      THEN GetImagesFailed(jobs.heap)
                      ELSE GetImagesFrom(cl, namespaces, i + 1,
                               WorkloadsImages("cronjobs",
                                   cl.namespaces[i].CronJobs, 1,
                                   namespaces[i], jobs, ord),
                               ord)

GetImages(cl, namespaces, h, ord) ==
    GetImagesFrom(cl, namespaces, 1, [images |-> <<>>, heap |-> h], ord)

\* GetAllImagesForAllNamespaces, up to the log.Fatal of a failed list call
GetAllImagesForAllNamespaces(cl, ord) ==
    LET ns == GetNamespaces(cl)
    IN  IF IsErr(ns.err)
        THEN [nil |-> TRUE, items |-> <<>>, heap |-> ns.heap, err |-> ns.err]
        ELSE GetImages(cl, ns.namespaces, ns.heap, ord)

(***************************************************************************)
(* ConvertImages over the list of raw records.  The converter merges the   *)
(* annotations of a record into its label map in place.                    *)
(***************************************************************************)
\* the raw record as convertK8ImageToCollectorImage reads it
Loaded(h, img) ==
    [Image |-> img.Image, ImageId |-> img.ImageId,
     NamespaceName |-> img.NamespaceName,
     Labels |-> Deref(h, img.Labels),
     Annotations |-> Deref(h, img.Annotations)]

\* the heap after convertK8ImageToCollectorImage: maps.Copy(tags, Annotations)
ConvertHeap(h, img) ==
    IF img.Labels = 0 THEN h ELSE CopyInto(h, img.Labels, img.Annotations)

RECURSIVE ConvertImagesDropSkipped(_, _, _, _, _, _)
ConvertImagesDropSkipped(items, i, acc, dflt, names, rc) ==
    IF i > Len(items) THEN acc
    ELSE LET collectorImage ==
                 cleanCollectorImage(
                     convertK8ImageToCollectorImage(
                         Loaded(acc.heap, items[i]), dflt, names), rc)
         IN  ConvertImagesDropSkipped(items, i + 1,
                 [images |-> IF collectorImage.Skip THEN acc.images
                             ELSE Append(acc.images, collectorImage),
                  heap |-> ConvertHeap(acc.heap, items[i])],
                 dflt, names, rc)

RECURSIVE ConvertImagesFrom(_, _, _, _, _, _)
ConvertImagesFrom(items, i, acc, dflt, names, rc) ==
    IF i > Len(items) THEN acc
    ELSE LET collectorImage ==
                 cleanCollectorImage(
                     convertK8ImageToCollectorImage(
                         Loaded(acc.heap, items[i]), dflt, names), rc)
         IN  ConvertImagesFrom(items, i + 1,
                 [images |-> Append(acc.images, collectorImage),
                  heap |-> ConvertHeap(acc.heap, items[i])],
                 dflt, names, rc)

\* ConvertImages(k8Images, defaults, annotationNames, runConfig)
ConvertImages(items, h, dflt, names, rc) ==
    LET r == ConvertImagesFrom(items, 1, [images |-> <<>>, heap |-> h],
                 dflt, names, rc)
    IN  [nil |-> FALSE, items |-> r.images, heap |-> r.heap, err |-> NoErr]

(***************************************************************************)
(* Encoders: JsonIndentMarshal and CycloneDXMarshal.  An encoded report is *)
(* kept as the document it spells: its format and its value.               *)
(***************************************************************************)
\* fmt.Sprintf("%v", b) of a bool and fmt.Sprintf("%d", n) of an int64
FormatBool(b) == IF b THEN <<"t","r","u","e">> ELSE <<"f","a","l","s","e">>
FormatInt(n) == IF n.neg THEN <<"-">> \o n.mag ELSE n.mag

\* json.MarshalIndent(v, "", "\t") of a *[]CollectorImage: a slice that was
\* never appended to is nil and encodes as null
JsonIndentMarshal(v) ==
    [data |-> [fmt |-> "json",
               value |-> IF v.items = <<>> THEN <<"null">> ELSE v.items],
     err |-> NoErr]

Property(name, value) == [Name |-> name, Value |-> value]

\* the cyclonedx.Component built for one record
Component(img) ==
    [Type |-> "container",
     Name |-> img.Image,
     Version |-> img.AppKubernetesIoVersion,
     PackageURL |-> img.ImageId,
     Properties |-> <<
        Property("namespace", img.Namespace),
        Property("environment", img.Environment),
        Property("product", img.Product),
        Property("description", img.Description),
        Property("app_kubernetes_io_name", img.AppKubernetesIoName),
        Property("container_type", img.ContainerType),
        Property("team", img.Team),
        Property("slack", img.Slack),
        Property("email", img.Email),
        Property("is_scan_baseimage_lifetime",
                 FormatBool(img.IsScanBaseimageLifetime)),
        Property("is_scan_dependency_check",
                 FormatBool(img.IsScanDependencyCheck)),
        Property("is_scan_dependency_track",
                 FormatBool(img.IsScanDependencyTrack)),
        Property("is_scan_distroless", FormatBool(img.IsScanDistroless)),
        Property("is_scan_lifetime", FormatBool(img.IsScanLifetime)),
        Property("is_scan_malware", FormatBool(img.IsScanMalware)),
        Property("is_scan_new_version", FormatBool(img.IsScanNewVersion)),
        Property("is_scan_runasroot", FormatBool(img.IsScanRunAsRoot)),
        Property("is_scan_potentially_running_as_root",
                 FormatBool(img.IsPotentiallyRunningAsRoot)),
        Property("is_scan_run_as_privileged",
                 FormatBool(img.IsScanRunAsPrivileged)),
        Property("is_scan_potentially_running_as_privileged",
                 FormatBool(img.IsPotentiallyRunningAsPrivileged)),
        Property("scan_lifetime_max_days",
                 FormatInt(img.ScanLifetimeMaxDays))>>]

\* CycloneDXMarshal of a *[]CollectorImage
CycloneDXMarshal(v) ==
    [data |-> [fmt |-> "cyclonedx",
               value |-> [BOMFormat |-> "CycloneDX",
                          SpecVersion |-> "1.5",
                          Version |-> 1,
                          Components |->
                              [i \in 1..Len(v.items) |->
                                  Component(v.items[i])]]],
     err |-> NoErr]

EncodeError == [fmt |-> "json: unsupported value", arg |-> <<>>]
NoData == [fmt |-> "", value |-> <<>>]

\* the call of the JsonMarshal handed to Store: "failing" is an encoder that
\* returns an error
Marshal(f, v) ==
    IF f = "JsonIndentMarshal" THEN JsonIndentMarshal(v)
    ELSE IF f = "CycloneDXMarshal" THEN CycloneDXMarshal(v)
    ELSE [data |-> NoData, err |-> EncodeError]

(***************************************************************************)
(* storage: selection of the sink.  A []string is the address of its       *)
(* backing array, 0 for the nil slice.                                     *)
(***************************************************************************)
\* the nil io.Writer; a writer has a dynamic type (kind) and may hold a nil
\* pointer of that type
NilWriter ==
    [kind |-> "nil", null |-> TRUE, fileName |-> "", ApiKey |-> "",
     ApiSignature |-> "", ApiEndpoint |-> "", HTTPHeaders |-> 0]

Writer(kind, fileName) ==
    [NilWriter EXCEPT !.kind = kind, !.null = FALSE, !.fileName = fileName]

NullWriter(kind) == [NilWriter EXCEPT !.kind = kind]

Elements(arr, a) == IF a = 0 THEN <<>> ELSE arr[a]

\* append([]string(nil), s...): a new backing array, nil for no element
CopyOf(arr, a) ==
    IF Elements(arr, a) = <<>> THEN [addr |-> 0, arrays |-> arr]
    ELSE [addr |-> Len(arr) + 1, arrays |-> Append(arr, arr[a])]

NewApiSharingHeaders(c, arr) ==
    IF c.ApiKey = ""
    THEN [w |-> NilWriter, arrays |-> arr,
          err |-> [fmt |-> "missing Api Key", arg |-> <<>>]]
    ELSE IF c.ApiSignature = ""
    THEN [w |-> NilWriter, arrays |-> arr,
          err |-> [fmt |-> "missing Api Signature", arg |-> <<>>]]
    ELSE IF c.ApiEndpoint = ""
    THEN [w |-> NilWriter, arrays |-> arr,
          err |-> [fmt |-> "missing Api Endpoint", arg |-> <<>>]]
    ELSE [w |-> [Writer("api", "") EXCEPT !.ApiKey = c.ApiKey,
                                         !.ApiSignature = c.ApiSignature,
                                         !.ApiEndpoint = c.ApiEndpoint,
                                         !.HTTPHeaders = c.HTTPHeaders],
          arrays |-> arr,
          err |-> NoErr]

NewApiEndpointFirst(c, arr) ==
    IF c.ApiEndpoint = ""
    THEN [w |-> NilWriter, arrays |-> arr,
          err |-> [fmt |-> "missing Api Endpoint", arg |-> <<>>]]
    ELSE NewApiSharingHeaders(c, arr)

NewApi(c, arr) ==
    IF c.ApiKey = ""
    THEN [w |-> NilWriter, arrays |-> arr,
          err |-> [fmt |-> "missing Api Key", arg |-> <<>>]]
    ELSE IF c.ApiSignature = ""
    THEN [w |-> NilWriter, arrays |-> arr,
          err |-> [fmt |-> "missing Api Signature", arg |-> <<>>]]
    ELSE IF c.ApiEndpoint = ""
    THEN [w |-> NilWriter, arrays |-> arr,
          err |-> [fmt |-> "missing Api Endpoint", arg |-> <<>>]]
    ELSE LET hs == CopyOf(arr, c.HTTPHeaders)
         IN  [w |-> [Writer("api", "") EXCEPT !.ApiKey = c.ApiKey,
                                              !.ApiSignature = c.ApiSignature,
                                              !.ApiEndpoint = c.ApiEndpoint,
                                              !.HTTPHeaders = hs.addr],
              arrays |-> hs.arrays,
              err |-> NoErr]

\* NewS3 returns a nil *s3Client with its error
NewS3(c, fileName, arr) ==
    IF c.S3BucketName = ""
    THEN [w |-> NullWriter("s3"), arrays |-> arr,
          err |-> [fmt |-> "S3_BUCKET is not set", arg |-> <<>>]]
    ELSE [w |-> Writer("s3", fileName), arrays |-> arr, err |-> NoErr]

\* git.NewGit: a writer, or no writer and the error of a missing credential
NewGit(c, fileName, arr, ok) ==
    IF ok THEN [w |-> Writer("git", fileName), arrays |-> arr, err |-> NoErr]
    ELSE [w |-> NilWriter, arrays |-> arr,
          err |-> [fmt |-> "missing git credentials", arg |-> <<>>]]

\* os.Create: the file is created or truncated, or a nil *os.File and an error
OsCreate(fileName, arr, ok) ==
    IF ok THEN [w |-> Writer("fs", fileName), arrays |-> arr, err |-> NoErr]
    ELSE [w |-> NullWriter("fs"), arrays |-> arr,
          err |-> [fmt |-> "open: permission denied", arg |-> <<>>]]

NewStorageDefaultStdout(c, environment, arr, ok) ==
    LET filename == IF c.FileName = "" THEN environment \o "-output.json"
                    ELSE c.FileName
    IN  IF c.StorageFlag = "s3" THEN NewS3(c, filename, arr)
        ELSE IF c.StorageFlag = "api" THEN NewApi(c, arr)
        ELSE IF c.StorageFlag = "git" THEN NewGit(c, filename, arr, ok)
        ELSE IF c.StorageFlag = "fs" THEN OsCreate(filename, arr, ok)
        ELSE [w |-> Writer("stdout", ""), arrays |-> arr, err |-> NoErr]

\* NewStorage(cfg, environment); ok is whether the git or the file system
\* call it makes succeeds
NewStorage(c, environment, arr, ok) ==
    LET filename == IF c.FileName = "" THEN environment \o "-output.json"
                    ELSE c.FileName
    IN  IF c.StorageFlag = "s3" THEN NewS3(c, filename, arr)
        ELSE IF c.StorageFlag = "api" THEN NewApi(c, arr)
        ELSE IF c.StorageFlag = "git" THEN NewGit(c, filename, arr, ok)
        ELSE IF c.StorageFlag = "fs" THEN OsCreate(filename, arr, ok)
        ELSE IF c.StorageFlag = "stdout"
        THEN [w |-> Writer("stdout", ""), arrays |-> arr, err |-> NoErr]
        ELSE [w |-> NilWriter, arrays |-> arr,
              err |-> Errorf("Storage flag %s is not supported",
                             c.StorageFlag)]

(***************************************************************************)
(* Store, and the outcomes of the Write of a sink as Store sees them.      *)
(***************************************************************************)
WriteError == [fmt |-> "write failed", arg |-> <<>>]
ShortWrite == [fmt |-> "short write", arg |-> <<>>]
WriteErrors == {NoErr, WriteError, ShortWrite}

NilError == [fmt |-> "cannot marshal nil", arg |-> <<>>]

StoreSwallowingWriteError(v, f, werr) ==
    IF v.nil
    THEN [exit |-> FALSE, err |-> NilError, data |-> NoData, calls |-> <<>>]
    ELSE LET m == Marshal(f, v)
         IN  IF IsErr(m.err)
             THEN [exit |-> TRUE, err |-> m.err, data |-> NoData,
                   calls |-> <<>>]
             ELSE [exit |-> FALSE, err |-> NoErr, data |-> m.data,
                   calls |-> <<[data |-> m.data, err |-> werr]>>]

\* Store(images, storage, jsonMarshal), werr being what storage.Write
\* returns: exit is the os.Exit of log.Fatal().Msg, calls are the calls of
\* storage.Write
Store(v, f, werr) ==
    IF v.nil
    THEN [exit |-> FALSE, err |-> NilError, data |-> NoData, calls |-> <<>>]
    ELSE LET m == Marshal(f, v)
         IN  IF IsErr(m.err)
             THEN [exit |-> TRUE, err |-> m.err, data |-> NoData,
                   calls |-> <<>>]
             ELSE [exit |-> FALSE, err |-> werr, data |-> m.data,
                   calls |-> <<[data |-> m.data, err |-> werr]>>]

\* the file of the fs sink after Write(data) returned werr
NoFile == [fmt |-> "absent", value |-> <<>>]
EmptyFile == [fmt |-> "empty", value |-> <<>>]
OldReport == [fmt |-> "json", value |-> <<"old">>]
PartOf(d) == [fmt |-> "truncated", value |-> d.value]

FileAfterWrite(file, d, werr) ==
    IF werr = NoErr THEN d
    ELSE IF werr = ShortWrite THEN PartOf(d)
    ELSE file

NoList == [nil |-> TRUE, items |-> <<>>]

(***************************************************************************)
(* Inputs of the run: clusters of one or two namespaces.                   *)
(***************************************************************************)
KeyTeam == "contact.sdase.org/team"

ImagePay == DockerPullable \o NsPay
ImageApp == NsApp
ImageIdPay == DockerPullable \o <<"i","d">>

Container(name, image) == [Name |-> name, Image |-> image]
Status(name, image, id) == [Name |-> name, Image |-> image, ImageID |-> id]

ContainerNames == {"app", "side"}
Orders(S) ==
    {s \in [1..Cardinality(S) -> S] : \A x \in S : \E i \in DOMAIN s : s[i] = x}

Workload(kind, containers, inits, statuses, initStatuses) ==
    [kind |-> kind, Labels |-> NilMap, Annotations |-> NilMap,
     Containers |-> containers, InitContainers |-> inits,
     ContainerStatuses |-> statuses, InitContainerStatuses |-> initStatuses]

\* a running pod: one container with its status
PodRunning ==
    Workload("pods", <<Container("app", ImagePay)>>, <<>>,
             <<Status("app", ImagePay, ImageIdPay)>>, <<>>)
\* a pod whose container has no image in the spec nor in the status
PodNoImage ==
    Workload("pods", <<Container("app", <<>>)>>, <<>>,
             <<Status("app", <<>>, <<>>)>>, <<>>)
\* a pod with an init container that ran and two containers without status
PodPending ==
    Workload("pods", <<Container("app", ImagePay), Container("side", ImageApp)>>,
             <<Container("app", ImageApp)>>, <<>>,
             <<Status("app", <<>>, <<>>)>>)
JobOne ==
    Workload("jobs", <<Container("app", ImagePay)>>,
             <<Container("side", ImageApp)>>, <<>>, <<>>)
CronJobOne ==
    Workload("cronjobs", <<Container("app", ImagePay)>>, <<>>, <<>>, <<>>)

Shapes == {PodRunning, PodNoImage, PodPending, JobOne, CronJobOne}

WorkloadLabels == {NilMap, Tag(KeyTeam, <<"w">>)}
WorkloadAnnotations ==
    {NilMap, Tag(KeyTeam, <<"a">>), Tag(KeySkip, <<"t","r","u","e">>),
     Tag(KeyNamespaceFilter, PatBad)}

Tagged(w, l, a) == [w EXCEPT !.Labels = l, !.Annotations = a]

Workloads ==
    {Tagged(w, l, a) : w \in Shapes, l \in WorkloadLabels,
                       a \in WorkloadAnnotations}
\* the workloads listed after the first one
SecondWorkloads ==
    {PodRunning, Tagged(PodRunning, NilMap, Tag(KeySkip, <<"y","e","s">>)),
     Tagged(JobOne, Tag(KeyTeam, <<"w">>), NilMap)}

OfKind(ws, kind) == SelectSeq(ws, LAMBDA w : w.kind = kind)

NamespaceOf(name, l, a, ws) ==
    [Name |-> name, Labels |-> l, Annotations |-> a,
     Pods |-> OfKind(ws, "pods"), Jobs |-> OfKind(ws, "jobs"),
     CronJobs |-> OfKind(ws, "cronjobs")]

NamespaceLabels == {NilMap, Tag(KeyTeam, <<"n">>)}
NamespaceAnnotations == {NilMap, Tag(KeyTeam, <<"m">>)}

\* clusters of one namespace whose list calls succeed
EnumClusters ==
    {[fail |-> NoFail, namespaces |-> <<NamespaceOf(NsPay, l, a, ws)>>] :
        l \in NamespaceLabels, a \in NamespaceAnnotations,
        ws \in {<<w>> : w \in Workloads}
               \cup {<<w, v>> : w \in Workloads, v \in SecondWorkloads}}

\* a cluster of two namespaces, and the list calls of a run that can fail
TwoNamespaces ==
    <<NamespaceOf(NsPay, Tag(KeyTeam, <<"n">>), NilMap,
                  <<PodRunning, JobOne, CronJobOne>>),
      NamespaceOf(NsApp, NilMap, NilMap, <<PodPending>>)>>

Fails ==
    {NoFail, FailNamespaces}
    \cup {FailAt(i, c) : i \in 1..2, c \in {"pods", "jobs", "cronjobs"}}

RunClusters ==
    {[fail |-> f, namespaces |-> TwoNamespaces] : f \in Fails}
    \cup {[fail |-> NoFail, namespaces |-> <<>>]}

\* no cluster is read: the call under study is not part of a run
NoCluster == [fail |-> FailAt(0, "idle"), namespaces |-> <<>>]

StorageFlags == {"s3", "api", "git", "fs", "stdout", "", "S3", "ftp"}

FullStorageConfig ==
    [StorageFlag |-> "stdout", FileName |-> "out.json",
     Environment |-> "prod", S3BucketName |-> "bucket", ApiKey |-> "k1",
     ApiSignature |-> "s1", ApiEndpoint |-> "https://api.example.com",
     HTTPHeaders |-> 0]

\* every selector value with the parameters of every sink given, and the
\* s3, api and fs sinks with one parameter left out
StorageConfigs ==
    {[FullStorageConfig EXCEPT !.StorageFlag = f] : f \in StorageFlags}
    \cup {[FullStorageConfig EXCEPT !.StorageFlag = "s3", !.S3BucketName = ""],
          [FullStorageConfig EXCEPT !.StorageFlag = "api", !.ApiKey = ""],
          [FullStorageConfig EXCEPT !.StorageFlag = "fs", !.FileName = ""]}

NoStorageConfig ==
    [StorageFlag |-> "", FileName |-> "", Environment |-> "",
     S3BucketName |-> "", ApiKey |-> "", ApiSignature |-> "",
     ApiEndpoint |-> "", HTTPHeaders |-> 0]

\* the configs handed to NewApi: each required field empty or not, and a
\* header list of up to MaxHeaders strings, nil or not when it is empty
HeaderValues == {"Original-Header:value", "Authorization:Bearer token"}
ModifiedHeader == "Modified-Header:value"
ModifiedKeys == {"modified-key", ""}

ApiCallConfigs ==
    {[NoStorageConfig EXCEPT !.StorageFlag = "api", !.ApiKey = k,
                             !.ApiSignature = s, !.ApiEndpoint = e,
                             !.HTTPHeaders = h] :
        k \in {"", "original-key"}, s \in {"", "original-signature"},
        e \in {"", "https://original.example.com"}, h \in {0, 1}}

\* the collections handed to Store directly
StoredImage(img, id, version, skip, days) ==
    [FullDefaults EXCEPT !.Namespace = NsPay, !.Image = img, !.ImageId = id,
                         !.AppKubernetesIoVersion = version, !.Skip = skip,
                         !.IsScanMalware = ~skip,
                         !.ScanLifetimeMaxDays = days]

StoredImages ==
    {StoredImage(img, ImageIdPay, v, sk, d) :
        img \in {ImagePay, ImageApp}, v \in {<<>>, <<"1",".","2">>},
        sk \in BOOLEAN, d \in {I64Zero, I64(TRUE, <<"7">>)}}

StoreInputs ==
    {NoList, [nil |-> FALSE, items |-> <<>>]}
    \cup {[nil |-> FALSE, items |-> <<x>>] : x \in StoredImages}
    \cup {[nil |-> FALSE, items |-> <<x, y>>] :
             x \in {StoredImage(ImagePay, ImageIdPay, <<>>, TRUE, I64Zero)},
             y \in StoredImages}

JsonMarshals == {"JsonIndentMarshal", "CycloneDXMarshal", "failing"}

(***************************************************************************)
(* Actions of run: sink selection, enumeration, conversion, Store; and the *)
(* call of NewApi with the changes its caller makes to the config after.   *)
(***************************************************************************)
\* storage.NewStorage, and the log.Fatal of run on its error; os.Create has
\* created or truncated the file when NewStorage returns an open file
RunNewStorage ==
    /\ stage = "start"
    /\ \E ok \in BOOLEAN :
          LET r == NewStorage(storageCfg, storageCfg.Environment, arrays, ok)
          IN  /\ storage' = r.w
              /\ runErr' = r.err
              /\ arrays' = r.arrays
              /\ dest' = IF r.w.kind = "fs" /\ ~r.w.null THEN EmptyFile
                         ELSE dest
              /\ stage' = IF IsErr(r.err) THEN "fatal" ELSE "sink"
    /\ UNCHANGED <<cluster, heap, k8Images, images, storageCfg, jsonMarshal,
                   encoded, writes, sinkVars, collVars, resVars>>

\* k8client.GetAllImagesForAllNamespaces, which exits on a failed list call
RunGetAllImages ==
    /\ stage = "sink"
    /\ \E ord \in Orders(ContainerNames) :
          LET r == GetAllImagesForAllNamespaces(cluster, ord)
          IN  /\ k8Images' = [nil |-> r.nil, items |-> r.items]
              /\ heap' = r.heap
              /\ runErr' = r.err
              /\ stage' = IF IsErr(r.err) THEN "fatal" ELSE "enumerated"
    /\ UNCHANGED <<cluster, images, storageCfg, arrays, storage, dest,
                   jsonMarshal, encoded, writes, sinkVars, collVars, resVars>>

\* collector.ConvertImages
RunConvertImages ==
    /\ stage = "enumerated"
    /\ LET r == ConvertImages(k8Images.items, heap, defaults,
                    annotationNames, runConfig)
       IN  /\ images' = [nil |-> r.nil, items |-> r.items]
           /\ heap' = r.heap
           /\ runErr' = r.err
           /\ stage' = IF IsErr(r.err) THEN "fatal" ELSE "converted"
    /\ UNCHANGED <<cluster, k8Images, storageCfg, arrays, storage, dest,
                   jsonMarshal, encoded, writes, sinkVars, collVars, resVars>>

\* collector.Store, and the log.Fatal of its caller on its error
RunStore ==
    /\ stage = "converted"
    /\ \E werr \in WriteErrors :
          LET r == Store(images, jsonMarshal, werr)
          IN  /\ encoded' = r.data
              /\ writes' = writes \o r.calls
              /\ dest' = IF storage.kind = "fs" /\ r.calls # <<>>
                         THEN FileAfterWrite(dest, r.data, werr)
                         ELSE dest
              /\ runErr' = r.err
              /\ stage' = IF r.exit \/ IsErr(r.err) THEN "fatal"
                          ELSE "stored"
    /\ UNCHANGED <<cluster, heap, k8Images, images, storageCfg, arrays,
                   storage, jsonMarshal, sinkVars, collVars, resVars>>

\* api.NewApi(cfg)
CallNewApi ==
    /\ stage = "call"
    /\ LET r == NewApi(storageCfg, arrays)
       IN  /\ storage' = r.w
           /\ runErr' = r.err
           /\ arrays' = r.arrays
    /\ stage' = "returned"
    /\ UNCHANGED <<cluster, heap, k8Images, images, storageCfg, dest,
                   jsonMarshal, encoded, writes, sinkVars, collVars, resVars>>

\* the caller assigns to cfg.ApiKey after NewApi returned
SetApiKey ==
    /\ stage \in {"returned", "changed"}
    /\ \E k \in ModifiedKeys : storageCfg' = [storageCfg EXCEPT !.ApiKey = k]
    /\ stage' = "changed"
    /\ UNCHANGED <<cluster, heap, k8Images, images, arrays, storage, runErr,
                   dest, jsonMarshal, encoded, writes, sinkVars, collVars,
                   resVars>>

\* the caller assigns to cfg.HTTPHeaders[i] after NewApi returned
SetHeader ==
    /\ stage \in {"returned", "changed"}
    /\ \E i \in 1..Len(Elements(arrays, storageCfg.HTTPHeaders)) :
          arrays' = [arrays EXCEPT ![storageCfg.HTTPHeaders][i] =
                                       ModifiedHeader]
    /\ stage' = "changed"
    /\ UNCHANGED <<cluster, heap, k8Images, images, storageCfg, storage,
                   runErr, dest, jsonMarshal, encoded, writes, sinkVars,
                   collVars, resVars>>

(***************************************************************************)
(* Initial states and specification.                                       *)
(***************************************************************************)
ResolverIdle ==
    /\ call = NoCall
    /\ result = NoResult

RunIdle ==
    /\ cluster = NoCluster
    /\ heap = <<>>
    /\ k8Images = NoList
    /\ images = NoList
    /\ stage = "idle"
    /\ storageCfg = NoStorageConfig
    /\ arrays = <<>>
    /\ storage = NilWriter
    /\ runErr = NoErr
    /\ dest = NoFile
    /\ jsonMarshal = "JsonIndentMarshal"
    /\ encoded = NoData
    /\ writes = <<>>

SinkIdle ==
    /\ api = [ApiKey |-> <<>>, ApiSignature |-> <<>>, ApiEndpoint |-> "",
              HTTPHeaders |-> <<>>]
    /\ s3c \in {c \in S3Clients : c.endpoint = ""}
    /\ bucket = <<>>
    /\ sink = "none"
    /\ content = NoContent
    /\ wire = <<>>
    /\ zipped = NoContent
    /\ reply = NoReply
    /\ ret = NoRet

CollectorIdle ==
    /\ k8Image = NoK8Image
    /\ annotationNames = DefaultAnnotationNames
    /\ defaults = ZeroCollectorImage
    /\ runConfig = [ImageFilter |-> <<>>]
    /\ ci = NoImage
    /\ pre = NoImage
    /\ pc = "idle"

\* a writer built by NewApi, not yet written to
InitApi ==
    /\ sink = "api"
    /\ api \in ApiConfigs
    /\ s3c \in {c \in S3Clients : c.endpoint = ""}
    /\ bucket = <<>>
    /\ content = NoContent
    /\ wire = <<>>
    /\ zipped = NoContent
    /\ reply = NoReply
    /\ ret = NoRet
    /\ CollectorIdle
    /\ ResolverIdle
    /\ RunIdle

\* a client built by NewS3, not yet written to
InitS3 ==
    /\ sink = "s3"
    /\ api = [ApiKey |-> <<>>, ApiSignature |-> <<>>, ApiEndpoint |-> "",
              HTTPHeaders |-> <<>>]
    /\ s3c \in S3Clients
    /\ bucket = <<>>
    /\ content = NoContent
    /\ wire = <<>>
    /\ zipped = NoContent
    /\ reply = NoReply
    /\ ret = NoRet
    /\ CollectorIdle
    /\ ResolverIdle
    /\ RunIdle

\* one raw record about to be converted by ConvertImages
InitCollector ==
    /\ SinkIdle
    /\ k8Image \in K8Images
    /\ annotationNames = DefaultAnnotationNames
    /\ defaults \in DefaultsSet
    /\ runConfig \in RunConfigs
    /\ ci = NoImage
    /\ pre = NoImage
    /\ pc = "raw"
    /\ ResolverIdle
    /\ RunIdle

Init == InitApi \/ InitS3 \/ InitCollector

Next == ApiWrite \/ S3Write \/ Convert \/ Clean

Spec == Init /\ [][Next]_vars

\* the normalizer on its own: one raw record, converted, normalized, and
\* normalized once more
InitClean ==
    /\ SinkIdle
    /\ k8Image \in CleanK8Images
    /\ annotationNames = DefaultAnnotationNames
    /\ defaults = ZeroCollectorImage
    /\ runConfig \in CleanRunConfigs
    /\ ci = NoImage
    /\ pre = NoImage
    /\ pc = "raw"
    /\ ResolverIdle
    /\ RunIdle

NextClean == Convert \/ Clean \/ CleanAgain

SpecClean == InitClean /\ [][NextClean]_vars

\* the converter on its own: one raw record whose tags name the fields under
\* one prefix set, converted under a prefix set that may be another one
InitConvert ==
    /\ SinkIdle
    /\ annotationNames \in AnnotationNameSets
    /\ \E n \in AnnotationNameSets : k8Image \in FieldK8Images(n)
    /\ defaults \in FieldDefaults
    /\ runConfig = [ImageFilter |-> <<>>]
    /\ ci = NoImage
    /\ pre = NoImage
    /\ pc = "raw"
    /\ ResolverIdle
    /\ RunIdle

NextConvert == Convert

SpecConvert == InitConvert /\ [][NextConvert]_vars

\* the resolvers on their own: one call of one resolver
InitResolver ==
    /\ SinkIdle
    /\ CollectorIdle
    /\ call \in Calls("GetOrDefaultString", StringValues, StringDefaults)
            \cup Calls("GetOrDefaultBool", BoolValues, BOOLEAN)
            \cup Calls("GetOrDefaultInt64", Int64Values, Int64Defaults)
            \cup Calls("GetOrDefaultStringSlice", SliceValues, SliceDefaults)
            \cup Calls("GetOrDefaultOwners", OwnerValues, OwnerDefaults)
            \cup Calls("GetOrDefaultNotifications", NotificationValues,
                       NotificationDefaults)
    /\ result = NoResult
    /\ RunIdle

NextResolver ==
    \/ ResolveString
    \/ ResolveBool
    \/ ResolveInt64
    \/ ResolveStringSlice
    \/ ResolveOwners
    \/ ResolveNotifications

SpecResolver == InitResolver /\ [][NextResolver]_vars

\* the collector's own configuration of a run: no record is under conversion
\* outside ConvertImages
RunCollector ==
    /\ k8Image = NoK8Image
    /\ annotationNames = DefaultAnnotationNames
    /\ defaults = FullDefaults
    /\ runConfig = [ImageFilter |-> <<PatBad>>]
    /\ ci = NoImage
    /\ pre = NoImage
    /\ pc = "idle"

\* a run of the collector from its start, and a direct call of Store
InitRun ==
    /\ SinkIdle
    /\ ResolverIdle
    /\ CollectorIdle
    /\ heap = <<>>
    /\ k8Images = NoList
    /\ arrays = <<>>
    /\ runErr = NoErr
    /\ encoded = NoData
    /\ writes = <<>>
    /\ \/ /\ stage = "start"
          /\ storage = NilWriter
          /\ cluster \in RunClusters
          /\ storageCfg \in StorageConfigs
          /\ dest \in {NoFile, OldReport}
          /\ images = NoList
          /\ jsonMarshal = "JsonIndentMarshal"
       \/ /\ stage = "converted"
          /\ cluster = NoCluster
          /\ storageCfg = NoStorageConfig
          /\ dest = NoFile
          /\ images \in StoreInputs
          /\ storage = Writer("stdout", "")
          /\ jsonMarshal \in JsonMarshals

NextRun == RunNewStorage \/ RunGetAllImages \/ RunConvertImages \/ RunStore

SpecRun == InitRun /\ [][NextRun]_vars

\* the enumerator and the converter on their own: the sink is chosen, the
\* cluster is read and its raw records are converted
InitEnumerate ==
    /\ SinkIdle
    /\ ResolverIdle
    /\ RunCollector
    /\ cluster \in EnumClusters
    /\ heap = <<>>
    /\ k8Images = NoList
    /\ images = NoList
    /\ stage = "sink"
    /\ storageCfg = [NoStorageConfig EXCEPT !.StorageFlag = "stdout"]
    /\ arrays = <<>>
    /\ storage = Writer("stdout", "")
    /\ runErr = NoErr
    /\ dest = NoFile
    /\ jsonMarshal = "JsonIndentMarshal"
    /\ encoded = NoData
    /\ writes = <<>>

NextEnumerate == RunGetAllImages \/ RunConvertImages

SpecEnumerate == InitEnumerate /\ [][NextEnumerate]_vars

\* NewApi on its own: one call, then the caller changes its config
InitNewApi ==
    /\ SinkIdle
    /\ ResolverIdle
    /\ CollectorIdle
    /\ cluster = NoCluster
    /\ heap = <<>>
    /\ k8Images = NoList
    /\ images = NoList
    /\ stage = "call"
    /\ storageCfg \in ApiCallConfigs
    /\ arrays \in {<<hs>> : hs \in SeqsUpTo(HeaderValues, MaxHeaders)}
                  \cup {<<>>}
    /\ (storageCfg.HTTPHeaders = 0) = (arrays = <<>>)
    /\ storage = NilWriter
    /\ runErr = NoErr
    /\ dest = NoFile
    /\ jsonMarshal = "JsonIndentMarshal"
    /\ encoded = NoData
    /\ writes = <<>>

NextNewApi == CallNewApi \/ SetApiKey \/ SetHeader

SpecNewApi == InitNewApi /\ [][NextNewApi]_vars

(***************************************************************************)
(* Properties of the HTTP sink and the object-storage sink.                *)
(***************************************************************************)
ApiReturned == sink = "api" /\ ret # NoRet
ApiSent == sink = "api" /\ Len(wire) >= 1

WellFormed(h) == \E i \in 1..Len(h) : h[i] = ":"
AllWellFormed == \A i \in 1..Len(api.HTTPHeaders) : WellFormed(api.HTTPHeaders[i])
KeyOf(h) == SubSeq(h, 1, IndexByte(h, ":") - 1)
ValueOf(h) == SubSeq(h, IndexByte(h, ":") + 1, Len(h))
Fold(k) == [i \in 1..Len(k) |-> ToLower(k[i])]

\* the configured extra headers that name the header `name`, whatever the case
Naming(name) ==
    {i \in 1..Len(api.HTTPHeaders) :
        /\ WellFormed(api.HTTPHeaders[i])
        /\ Fold(KeyOf(api.HTTPHeaders[i])) = Fold(name)}

\* the value the request must carry for `name`: that of the last extra header
\* naming it, else the fixed value
Carried(name, fixed) ==
    IF Naming(name) = {} THEN fixed
    ELSE ValueOf(api.HTTPHeaders[CHOOSE i \in Naming(name) :
                                     \A j \in Naming(name) : j <= i])

TooLargeFmt == "content size is too large" \o " (%d bytes)"
InvalidHeaderFmt == "invalid header format" \o ": %s"
StatusFmt == "got a Status '%s' instead of an '200 OK' response for API request"

SizeCheckPassed ==
    \/ content.len <= MaxContentSize
    \/ zipped.len <= MaxContentSize

\* C1: a payload longer than 6 MiB whose gzip is also longer than 6 MiB makes
\* Write fail with "content size is too large" and no request is issued.
C1_TooLargeFailsBeforeDispatch ==
    (ApiReturned /\ content.len > MaxContentSize /\ zipped.len > MaxContentSize)
        => /\ ret.err.fmt = TooLargeFmt
           /\ ret.err.arg = <<zipped.len>>
           /\ ret.n = 0
           /\ wire = <<>>

C1_Witness ==
    /\ ApiReturned
    /\ content.len > MaxContentSize
    /\ zipped.len > MaxContentSize
    /\ ret.err.fmt = TooLargeFmt
    /\ wire = <<>>

\* C2 as stated: for a payload longer than 6 MiB and any well-formed extra
\* headers, the request carries the gzip of the payload, at most 6 MiB of
\* body, and Content-Encoding equal to gzip.
C2_Original ==
    (ApiSent /\ content.len > MaxContentSize /\ AllWellFormed)
        => /\ wire[1].Body.enc = "gzip"
           /\ Gunzip(wire[1].Body) = content
           /\ wire[1].Body.len <= MaxContentSize
           /\ HeaderGet(wire[1].Header, ContentEncoding) = GzipToken

\* C2 amended: the body is the gzip of the payload and at most 6 MiB long;
\* Content-Encoding is gzip unless a configured extra header names
\* Content-Encoding, and then it is the value of the last such header.
C2_CompressedBody ==
    (ApiSent /\ content.len > MaxContentSize /\ AllWellFormed)
        => /\ wire[1].Body.enc = "gzip"
           /\ wire[1].Body = zipped
           /\ Gunzip(wire[1].Body) = content
           /\ wire[1].Body.len <= MaxContentSize
           /\ HeaderHas(wire[1].Header, ContentEncoding)
           /\ HeaderGet(wire[1].Header, ContentEncoding)
                = Carried(ContentEncoding, GzipToken)

C2_Witness ==
    /\ ApiSent
    /\ content.len > MaxContentSize
    /\ Len(api.HTTPHeaders) >= 1
    /\ AllWellFormed
    /\ Naming(ContentEncoding) = {}
    /\ wire[1].Body.len < content.len
    /\ HeaderGet(wire[1].Header, ContentEncoding) = GzipToken

\* C3 as stated: a payload of at most 6 MiB is sent unchanged by PUT and the
\* request carries no Content-Encoding header.
C3_Original ==
    (ApiSent /\ content.len <= MaxContentSize)
        => /\ wire[1].Method = "PUT"
           /\ wire[1].Body = content
           /\ ~HeaderHas(wire[1].Header, ContentEncoding)

\* C3 amended: a payload of at most 6 MiB is sent unchanged by PUT; the
\* request carries no Content-Encoding header unless a configured extra
\* header names Content-Encoding, and then it carries the last such value.
C3_SmallSentAsIs ==
    (ApiSent /\ content.len <= MaxContentSize)
        => /\ wire[1].Method = "PUT"
           /\ wire[1].Body = content
           /\ zipped = NoContent
           /\ (Naming(ContentEncoding) = {}
                 => ~HeaderHas(wire[1].Header, ContentEncoding))
           /\ (Naming(ContentEncoding) # {}
                 => HeaderGet(wire[1].Header, ContentEncoding)
                      = Carried(ContentEncoding, <<>>))

C3_Witness ==
    /\ ApiSent
    /\ content.len = MaxContentSize
    /\ wire[1].Body = content
    /\ ~HeaderHas(wire[1].Header, ContentEncoding)

\* C4 as stated (read for an endpoint that parses): an extra header without
\* colon makes Write return "invalid header format" with no request issued,
\* whatever the payload.
C4_Original ==
    (ApiReturned /\ ~AllWellFormed /\ UrlParses(api.ApiEndpoint))
        => /\ ret.err.fmt = InvalidHeaderFmt
           /\ wire = <<>>

\* C4 amended: an extra header without colon makes Write fail with no request
\* issued, whatever its position and the payload; the error is "invalid
\* header format", naming the first such header, whenever the payload passed
\* the size check and the endpoint parses; a payload too large even after
\* compression gives "content size is too large" instead.
C4_MalformedHeaderFails ==
    (ApiReturned /\ ~AllWellFormed)
        => /\ IsErr(ret.err)
           /\ ret.n = 0
           /\ wire = <<>>
           /\ (SizeCheckPassed /\ UrlParses(api.ApiEndpoint))
                => /\ ret.err.fmt = InvalidHeaderFmt
                   /\ \E i \in 1..Len(api.HTTPHeaders) :
                        /\ ~WellFormed(api.HTTPHeaders[i])
                        /\ \A j \in 1..(i - 1) : WellFormed(api.HTTPHeaders[j])
                        /\ ret.err.arg = <<api.HTTPHeaders[i]>>
           /\ ~SizeCheckPassed => ret.err.fmt = TooLargeFmt

C4_Witness ==
    /\ ApiReturned
    /\ Len(api.HTTPHeaders) = MaxHeaders
    /\ WellFormed(api.HTTPHeaders[1])
    /\ ~WellFormed(api.HTTPHeaders[MaxHeaders])
    /\ content.len > MaxContentSize
    /\ ret.err.fmt = InvalidHeaderFmt
    /\ wire = <<>>

C6_Original ==
    (ApiSent /\ AllWellFormed)
        => /\ HeaderGet(wire[1].Header, XApiKey) = api.ApiKey
           /\ HeaderGet(wire[1].Header, XApiSignature) = api.ApiSignature
           /\ HeaderGet(wire[1].Header, ContentType) = ApplicationJson
           /\ \A i \in 1..Len(api.HTTPHeaders) :
                HeaderGet(wire[1].Header, KeyOf(api.HTTPHeaders[i]))
                    = ValueOf(api.HTTPHeaders[i])

\* C6 amended: every request carries the three fixed headers, each with its
\* fixed value unless a configured extra header has the same name (in any
\* case), and for every name among the extra headers the value of the last
\* extra header of that name.
C6_HeadersCarried ==
    (ApiSent /\ AllWellFormed)
        => /\ HeaderGet(wire[1].Header, XApiKey) = Carried(XApiKey, api.ApiKey)
           /\ HeaderGet(wire[1].Header, XApiSignature)
                = Carried(XApiSignature, api.ApiSignature)
           /\ HeaderGet(wire[1].Header, ContentType)
                = Carried(ContentType, ApplicationJson)
           /\ \A i \in 1..Len(api.HTTPHeaders) :
                /\ HeaderHas(wire[1].Header, KeyOf(api.HTTPHeaders[i]))
                /\ HeaderGet(wire[1].Header, KeyOf(api.HTTPHeaders[i]))
                     = Carried(KeyOf(api.HTTPHeaders[i]), <<>>)

C6_Witness ==
    /\ ApiSent
    /\ api.HTTPHeaders = <<HdrCustom, HdrColons>>
    /\ HeaderGet(wire[1].Header, XApiKey) = api.ApiKey
    /\ HeaderGet(wire[1].Header, KeyOf(HdrCustom)) = <<"a",":","b">>

Normalized == pc = "clean"

Matches(p, s) == MatchString(p, s).matched

ExplicitSkip == pre.Skip
FilterMatch == pre.NamespaceFilter # <<>> /\ Matches(pre.NamespaceFilter, pre.Namespace)
NegatedMatch ==
    /\ pre.NamespaceFilterNegated # <<>>
    /\ Matches(pre.NamespaceFilterNegated, pre.Namespace)
NegatedNonMatch ==
    /\ pre.NamespaceFilterNegated # <<>>
    /\ ~Matches(pre.NamespaceFilterNegated, pre.Namespace)
NamespaceSkip == FilterMatch \/ NegatedMatch
ImageFilterSkip ==
    \E i \in 1..Len(runConfig.ImageFilter) : Matches(runConfig.ImageFilter[i], ci.Image)

\* C8: after cleanCollectorImage, skip is explicitSkip OR namespaceSkip OR
\* imageFilterSkip: each disjunct alone makes skip true, all three false
\* make it false; explicitSkip is what the converter resolved.
C8_SkipOrLaw ==
    Normalized
        => /\ pre = convertK8ImageToCollectorImage(k8Image, defaults, annotationNames)
           /\ ExplicitSkip => ci.Skip
           /\ NamespaceSkip => ci.Skip
           /\ ImageFilterSkip => ci.Skip
           /\ (~ExplicitSkip /\ ~NamespaceSkip /\ ~ImageFilterSkip) => ~ci.Skip

C8_Witness ==
    /\ Normalized
    /\ ~ExplicitSkip
    /\ ~NamespaceSkip
    /\ ImageFilterSkip
    /\ ci.Skip

\* C9: a non-empty namespaceFilterNegated contributes to skip exactly when
\* its pattern matches the namespace; an empty one never contributes.
C9_NegatedFilterMatchSkips ==
    (Normalized /\ ~ExplicitSkip /\ ~FilterMatch /\ ~ImageFilterSkip)
        => /\ ci.Skip <=> NegatedMatch
           /\ pre.NamespaceFilterNegated = <<>> => ~ci.Skip

C9_Witness ==
    /\ Normalized
    /\ ~ExplicitSkip /\ ~FilterMatch /\ ~ImageFilterSkip
    /\ NegatedMatch
    /\ ci.Skip

\* C10 as stated (read for a record no image-filter pattern matches): skip
\* is the OR of the explicit flag, a match of the non-empty namespaceFilter
\* and a NON-match of the non-empty namespaceFilterNegated.
C10_Original ==
    (Normalized /\ ~ImageFilterSkip)
        => (ci.Skip <=> (ExplicitSkip \/ FilterMatch \/ NegatedNonMatch))

\* C10 amended: skip is the OR of the explicit flag, a match of the non-empty
\* namespaceFilter, a MATCH of the non-empty namespaceFilterNegated, and a
\* match of the image by a pattern of the image-filter list.
C10_SkipIsOrOfSignals ==
    Normalized
        => (ci.Skip <=> (ExplicitSkip \/ FilterMatch \/ NegatedMatch \/ ImageFilterSkip))

C10_Witness ==
    /\ Normalized
    /\ ~ExplicitSkip /\ ~FilterMatch /\ ~ImageFilterSkip
    /\ NegatedNonMatch
    /\ ~ci.Skip

(***************************************************************************)
(* Properties of the normalizer (SpecClean).  `pre` is the record as it    *)
(* was before the latest cleanCollectorImage, `ci` the record after it.    *)
(***************************************************************************)
Cleaned == pc \in {"clean", "cleanAgain"}

\* an unanchored search of the text s for the pattern p
Searches(p, s) == \E j \in 1..(Len(s) + 1) : MatchHere(p, s, 1, j)
CompilesAndMatches(p, s) == Compiles(p) /\ Searches(p, s)

ImageFilterSignal ==
    \E i \in 1..Len(runConfig.ImageFilter) :
        CompilesAndMatches(runConfig.ImageFilter[i], ci.Image)
NamespaceSignal ==
    \/ /\ pre.NamespaceFilter # <<>>
       /\ CompilesAndMatches(pre.NamespaceFilter, pre.Namespace)
    \/ /\ pre.NamespaceFilterNegated # <<>>
       /\ CompilesAndMatches(pre.NamespaceFilterNegated, pre.Namespace)

\* C11: with no other signal, skip is true exactly when some pattern of the
\* image-filter list compiles and matches the image by unanchored search,
\* wherever the pattern stands in the list and whatever patterns before it
\* fail to compile; a namespaceFilter or namespaceFilterNegated that fails to
\* compile gives no signal.
C11_ImageFilterSignal ==
    (Cleaned /\ ~pre.Skip)
        => /\ ~NamespaceSignal => (ci.Skip <=> ImageFilterSignal)
           /\ (~Compiles(pre.NamespaceFilter) /\ ~ImageFilterSignal
                  /\ pre.NamespaceFilterNegated = <<>>) => ~ci.Skip
           /\ (~Compiles(pre.NamespaceFilterNegated) /\ ~ImageFilterSignal
                  /\ pre.NamespaceFilter = <<>>) => ~ci.Skip

C11_Witness ==
    /\ pc = "clean"
    /\ ~pre.Skip
    /\ pre.NamespaceFilterNegated = PatBad
    /\ Len(runConfig.ImageFilter) = 2
    /\ ~Compiles(runConfig.ImageFilter[1])
    /\ CompilesAndMatches(runConfig.ImageFilter[2], ci.Image)
    /\ ci.Skip

\* C12: after normalization imageId is never the empty string, also for a
\* record whose image is empty or is the legacy prefix alone.
C12_ImageIdNeverEmpty ==
    pc = "clean" => ci.ImageId # <<>>

\* C13: normalization is idempotent: a second cleanCollectorImage leaves
\* image, imageId and skip as the first one made them.
C13_Idempotent ==
    pc = "cleanAgain"
        => /\ ci.Image = pre.Image
           /\ ci.ImageId = pre.ImageId
           /\ ci.Skip = pre.Skip

(***************************************************************************)
(* Properties of the resolvers (SpecResolver).                             *)
(***************************************************************************)
Resolved(fn) == result.done /\ call.fn = fn
KeyPresent == Has(call.m, call.name)
TagValue == call.m.kv[call.name]

\* C14: a tag map that lacks the key makes every resolver return the
\* default; GetOrDefaultString also returns the default for a key that
\* holds the empty string.
C14_AbsentKeyGivesDefault ==
    result.done
        => /\ ~KeyPresent => result.value = call.default_
           /\ (call.fn = "GetOrDefaultString" /\ KeyPresent /\ TagValue = <<>>)
                 => result.value = call.default_

C14_Witness ==
    /\ Resolved("GetOrDefaultNotifications")
    /\ ~KeyPresent
    /\ Has(call.m, OtherKey)
    /\ call.default_ # ZeroNotifications
    /\ result.value = call.default_

\* texts strconv.ParseBool and strconv.ParseInt(s, 10, 64) refuse
MalformedBools == {<<>>, <<"y","e","s">>, <<"t","R","u","E">>, <<"n","o">>, <<"2">>}
MalformedInt64s ==
    {<<>>, <<"1",".","2","3">>, <<"a","b","c">>, <<"1","2","a">>, <<"-">>,
     <<" ","5">>,
     <<"9","2","2","3","3","7","2","0","3","6","8","5","4","7","7","5","8","0","8">>,
     <<"-","9","2","2","3","3","7","2","0","3","6","8","5","4","7","7","5","8","0","9">>,
     <<"9","9","9","9","9","9","9","9","9","9","9","9","9","9","9","9","9","9","9","9">>}

\* C15: a value that does not parse as a boolean or as an int64 (empty,
\* another token, non-decimal text, decimal text out of range) makes
\* GetOrDefaultBool and GetOrDefaultInt64 return the default itself.
C15_MalformedGivesDefault ==
    /\ (Resolved("GetOrDefaultBool") /\ KeyPresent /\ TagValue \in MalformedBools)
          => result.value = call.default_
    /\ (Resolved("GetOrDefaultInt64") /\ KeyPresent
            /\ TagValue \in MalformedInt64s)
          => result.value = call.default_

C15_Witness ==
    /\ Resolved("GetOrDefaultInt64")
    /\ KeyPresent
    /\ TagValue = <<"9","2","2","3","3","7","2","0","3","6","8","5","4","7","7","5","8","0","8">>
    /\ call.default_ = I64(FALSE, <<"5">>)
    /\ result.value = call.default_

\* C16: GetOrDefaultOwners returns the default list as it is when the key is
\* absent, the value is empty or the value does not decode as a list of
\* owners, and the decoded list when it does: "[]" gives the empty list.
C16_OwnersDefaultOrDecoded ==
    Resolved("GetOrDefaultOwners")
        => /\ (~KeyPresent \/ TagValue = <<>> \/ UnmarshalOwners(TagValue).err)
                 => result.value = call.default_
           /\ (KeyPresent /\ TagValue # <<>> /\ ~UnmarshalOwners(TagValue).err)
                 => result.value = UnmarshalOwners(TagValue).val
           /\ (KeyPresent /\ TagValue = JsonBad) => result.value = call.default_
           /\ (KeyPresent /\ TagValue = <<Tok("["), Tok("]")>>)
                 => result.value = <<>>

C16_Witness ==
    /\ Resolved("GetOrDefaultOwners")
    /\ KeyPresent
    /\ TagValue = <<Tok("["), Tok("]")>>
    /\ call.default_ # <<>>
    /\ result.value = <<>>

\* the JSON text gives at least one element for the sub-list named key
GivesElements(toks, key) ==
    \E i \in 1..(Len(toks) - 3) :
        /\ toks[i].k = "str" /\ EqualFold(toks[i].s, key)
        /\ toks[i+1].k = ":"
        /\ toks[i+2].k = "["
        /\ toks[i+3].k # "]"

\* C17: when the notifications value decodes, the result is the decoded
\* object alone: a sub-list the JSON omits or gives as an empty array is
\* empty, never the default's; absent key, empty value and decode failure
\* give the whole default.
C17_NotificationsAllOrNothing ==
    Resolved("GetOrDefaultNotifications")
        => /\ (~KeyPresent \/ TagValue = <<>>
                  \/ UnmarshalNotifications(TagValue).err)
                 => result.value = call.default_
           /\ (KeyPresent /\ TagValue # <<>>
                  /\ ~UnmarshalNotifications(TagValue).err)
                 => /\ result.value = UnmarshalNotifications(TagValue).val
                    /\ ~GivesElements(TagValue, KeySlack)
                          => result.value.Slack = <<>>
                    /\ ~GivesElements(TagValue, KeyEmails)
                          => result.value.Emails = <<>>
                    /\ ~GivesElements(TagValue, KeyMsTeams)
                          => result.value.MSTeams = <<>>

C17_Witness ==
    /\ Resolved("GetOrDefaultNotifications")
    /\ KeyPresent
    /\ GivesElements(TagValue, KeySlack)
    /\ ~GivesElements(TagValue, KeyEmails)
    /\ call.default_.Emails # <<>>
    /\ result.value.Slack = <<<<"#","s">>>>
    /\ result.value.Emails = <<>>

Commas(v) == Cardinality({i \in 1..Len(v) : v[i] = ","})

RECURSIVE JoinWithCommas(_)
JoinWithCommas(parts) ==
    IF Len(parts) = 1 THEN parts[1]
    ELSE parts[1] \o <<",">> \o JoinWithCommas(Tail(parts))

\* C18: GetOrDefaultStringSlice returns the default when the key is absent;
\* when it is present the result is the value cut at every comma, nothing
\* trimmed: one element more than commas, and the empty value gives the
\* one-element list of the empty string.
C18_SliceSplitsAtCommas ==
    Resolved("GetOrDefaultStringSlice")
        => /\ ~KeyPresent => result.value = call.default_
           /\ KeyPresent
                 => /\ Len(result.value) = Commas(TagValue) + 1
                    /\ JoinWithCommas(result.value) = TagValue
                    /\ \A i \in 1..Len(result.value) :
                          Commas(result.value[i]) = 0
           /\ (KeyPresent /\ TagValue = <<>>) => result.value = << <<>> >>

C18_Witness ==
    /\ Resolved("GetOrDefaultStringSlice")
    /\ KeyPresent
    /\ TagValue = <<>>
    /\ call.default_ # <<>>
    /\ result.value = << <<>> >>

(***************************************************************************)
(* Properties of the converter (SpecConvert).  The tag of a key is the     *)
(* annotation of that name, or else the label of that name.                *)
(***************************************************************************)
Converted == pc = "converted"

TagPresent(k) == Has(k8Image.Annotations, k) \/ Has(k8Image.Labels, k)
TagOf(k) ==
    IF Has(k8Image.Annotations, k) THEN k8Image.Annotations.kv[k]
    ELSE k8Image.Labels.kv[k]

\* the prefixed fields: field, category of its prefix, suffix of its key
StringFields ==
    {[f |-> "Environment", cat |-> "Base", suffix |-> "environment"],
     [f |-> "Product", cat |-> "Base", suffix |-> "product"],
     [f |-> "Description", cat |-> "Base", suffix |-> "description"],
     [f |-> "ContainerType", cat |-> "Base", suffix |-> "container-type"],
     [f |-> "NamespaceFilter", cat |-> "Scans", suffix |-> "namespace-filter"],
     [f |-> "NamespaceFilterNegated", cat |-> "Scans", suffix |-> "negated_namespace_filter"],
     [f |-> "Team", cat |-> "Contact", suffix |-> "team"],
     [f |-> "TeamUuid", cat |-> "Contact", suffix |-> "team_uuid"],
     [f |-> "Slack", cat |-> "Contact", suffix |-> "slack"],
     [f |-> "Email", cat |-> "Contact", suffix |-> "email"]}
BoolFields ==
    {[f |-> "Skip", cat |-> "Scans", suffix |-> "skip"],
     [f |-> "IsScanBaseimageLifetime", cat |-> "Scans", suffix |-> "is-scan-baseimage-lifetime"],
     [f |-> "IsScanDependencyCheck", cat |-> "Scans", suffix |-> "is-scan-dependency-check"],
     [f |-> "IsScanDependencyTrack", cat |-> "Scans", suffix |-> "is-scan-dependency-track"],
     [f |-> "IsScanDistroless", cat |-> "Scans", suffix |-> "is-scan-distroless"],
     [f |-> "IsScanLifetime", cat |-> "Scans", suffix |-> "is-scan-lifetime"],
     [f |-> "IsScanMalware", cat |-> "Scans", suffix |-> "is-scan-malware"],
     [f |-> "IsScanNewVersion", cat |-> "Scans", suffix |-> "is-scan-new-version"],
     [f |-> "IsScanRunAsRoot", cat |-> "Scans", suffix |-> "is-scan-runasroot"],
     [f |-> "IsPotentiallyRunningAsRoot", cat |-> "Scans", suffix |-> "is-scan-potentially-running-as-root"],
     [f |-> "IsScanRunAsPrivileged", cat |-> "Scans", suffix |-> "is-scan-run-as-privileged"],
     [f |-> "IsPotentiallyRunningAsPrivileged", cat |-> "Scans", suffix |-> "is-scan-potentially-running-as-privileged"]}
KeyFor(e) == annotationNames[e.cat] \o e.suffix

TrueTokens == {<<"1">>, <<"t">>, <<"T">>, <<"T","R","U","E">>, <<"t","r","u","e">>,
     <<"T","r","u","e">>}
FalseTokens == {<<"0">>, <<"f">>, <<"F">>, <<"F","A","L","S","E">>,
     <<"f","a","l","s","e">>, <<"F","a","l","s","e">>}

StringFieldOk(e) ==
    LET k == KeyFor(e)
    IN  ci[e.f] = IF TagPresent(k) /\ TagOf(k) # <<>> THEN TagOf(k)
                  ELSE defaults[e.f]
BoolFieldOk(e) ==
    LET k == KeyFor(e)
    IN  ci[e.f] = IF TagPresent(k) /\ TagOf(k) \in TrueTokens THEN TRUE
                  ELSE IF TagPresent(k) /\ TagOf(k) \in FalseTokens THEN FALSE
                  ELSE defaults[e.f]
Int64FieldOk ==
    LET k == annotationNames.Scans \o "scan-lifetime-max-days"
    IN  ci.ScanLifetimeMaxDays =
            IF TagPresent(k) /\ ParseInt(TagOf(k)).err = ""
            THEN ParseInt(TagOf(k)).value
            ELSE defaults.ScanLifetimeMaxDays
SliceFieldOk ==
    LET k == annotationNames.DefectDojo \o "engagement-tags"
    IN  ci.EngagementTags =
            IF TagPresent(k) THEN Split(TagOf(k), ",")
            ELSE defaults.EngagementTags
OwnersFieldOk ==
    LET k == annotationNames.Contact \o "owners"
    IN  ci.Owners =
            IF TagPresent(k) /\ TagOf(k) # <<>> /\ ~UnmarshalOwners(TagOf(k)).err
            THEN UnmarshalOwners(TagOf(k)).val
            ELSE defaults.Owners

\* C19: every prefixed field of a converted record is the parsed value of
\* the tag <prefix of its category><suffix of the field>, or defaults.<field>
\* itself when that tag is absent or does not parse; so a malformed value
\* changes no other field.
C19_FieldIsTagOrDefault ==
    Converted
        => /\ \A e \in StringFields : StringFieldOk(e)
           /\ \A e \in BoolFields : BoolFieldOk(e)
           /\ Int64FieldOk
           /\ SliceFieldOk
           /\ OwnersFieldOk

C19_Witness ==
    /\ Converted
    /\ annotationNames = CustomAnnotationNames
    /\ defaults = FullDefaults
    /\ TagPresent("x/skip")
    /\ TagOf("x/skip") = <<"y","e","s">>
    /\ ci.Skip = defaults.Skip
    /\ TagPresent("y/team")
    /\ ci.Team = TagOf("y/team")
    /\ ci.Team # defaults.Team
    /\ ci.IsScanMalware
    /\ ~defaults.IsScanMalware
    /\ ci.Environment = defaults.Environment

\* C20: app_kubernetes_io_name and app_kubernetes_io_version are the tags
\* app.kubernetes.io/name and app.kubernetes.io/version, and the empty
\* string when the tag is absent or empty, whatever the prefixes and the
\* defaults are.
C20_AppFieldsFromFixedKeys ==
    Converted
        => /\ ci.AppKubernetesIoName =
                IF TagPresent(KeyAppName) /\ TagOf(KeyAppName) # <<>>
                THEN TagOf(KeyAppName) ELSE <<>>
           /\ ci.AppKubernetesIoVersion =
                IF TagPresent(KeyAppVersion) /\ TagOf(KeyAppVersion) # <<>>
                THEN TagOf(KeyAppVersion) ELSE <<>>

C20_Witness ==
    /\ Converted
    /\ annotationNames = AppAnnotationNames
    /\ defaults = FullDefaults
    /\ ~TagPresent(KeyAppName)
    /\ ci.AppKubernetesIoName = <<>>
    /\ TagPresent(KeyAppVersion)
    /\ ci.AppKubernetesIoVersion = TagOf(KeyAppVersion)

(***************************************************************************)
(* Properties of the run: enumeration, conversion of the list, encoding,   *)
(* sink selection and delivery.                                            *)
(***************************************************************************)
\* the heap as the enumeration left it (the range order of the container
\* maps does not enter it)
EnumHeap ==
    GetAllImagesForAllNamespaces(cluster,
        CHOOSE ord \in Orders(ContainerNames) : TRUE).heap

\* the record of a raw record, converted on its own from the heap h
ConvertedAlone(h, img) ==
    cleanCollectorImage(
        convertK8ImageToCollectorImage(Loaded(h, img), defaults,
                                       annotationNames),
        runConfig)

SameImage(a, b) ==
    a.Namespace = b.Namespace /\ a.Image = b.Image /\ a.ImageId = b.ImageId

\* C21: for every list of raw records ConvertImages returns no error and a
\* collection with exactly one record per raw record, in input order; records
\* with the same namespace, image and image id stay separate entries and
\* records with skip = true stay in the collection.
C21_OneRecordPerRawRecord ==
    stage = "converted" =>
        /\ runErr = NoErr
        /\ ~images.nil
        /\ Len(images.items) = Len(k8Images.items)
        /\ \A i \in 1..Len(k8Images.items) :
              /\ images.items[i].Namespace = k8Images.items[i].NamespaceName
              /\ images.items[i].Image =
                     RemoveAll(k8Images.items[i].Image, DockerPullable)

C21_Witness ==
    /\ stage = "converted"
    /\ Len(images.items) = 2
    /\ SameImage(images.items[1], images.items[2])
    /\ images.items[1].Skip
    /\ ~images.items[2].Skip

\* the workloads of a namespace of the cluster, and the tag map a workload
\* is to carry: its own entries, and those of the namespace for the keys it
\* lacks
AllWorkloads(n) == n.Pods \o n.Jobs \o n.CronJobs

WorkloadFirst(own, ns) == IF own.nil THEN ns ELSE MapsCopy(ns, own)

CarriesTagsOf(r, w, n) ==
    /\ Deref(heap, r.Labels) = WorkloadFirst(w.Labels, n.Labels)
    /\ Deref(heap, r.Annotations) = WorkloadFirst(w.Annotations, n.Annotations)

\* C22: in the label map and in the annotation map of a raw record, a key
\* present both on the workload and on its namespace keeps the workload's
\* value, and a namespace value appears only for keys the workload lacks:
\* every raw record of a namespace carries the maps of one of its workloads
\* merged workload first.
C22_WorkloadValueKept ==
    stage = "enumerated" =>
        \A i \in 1..Len(k8Images.items) :
            \A j \in 1..Len(cluster.namespaces) :
                LET r == k8Images.items[i]
                    n == cluster.namespaces[j]
                IN  n.Name = r.NamespaceName =>
                        \E k \in 1..Len(AllWorkloads(n)) :
                            CarriesTagsOf(r, AllWorkloads(n)[k], n)

Reverse(s) == [i \in 1..Len(s) |-> s[Len(s) + 1 - i]]
Records(s) == {s[i] : i \in DOMAIN s}

\* C29: the record converted for a workload depends only on the tags of that
\* workload and of its namespace, the defaults and the prefixes: each record
\* of the collection is the one its raw record gives when converted on its
\* own, and converting the raw records in the opposite order gives the same
\* set of records.
C29_RecordsIndependent ==
    stage = "converted" =>
        /\ \A i \in 1..Len(k8Images.items) :
              images.items[i] = ConvertedAlone(EnumHeap, k8Images.items[i])
        /\ Records(images.items) =
               Records(ConvertImages(Reverse(k8Images.items), EnumHeap,
                           defaults, annotationNames, runConfig).items)

\* C30: a container status with neither a status image nor a pod-spec image
\* adds no raw record: every raw record GetImages returns has a non-empty
\* image and the name of a namespace of the cluster.
C30_NoRecordWithoutImage ==
    stage = "enumerated" =>
        \A i \in 1..Len(k8Images.items) :
            /\ k8Images.items[i].Image # <<>>
            /\ \E j \in 1..Len(cluster.namespaces) :
                  cluster.namespaces[j].Name = k8Images.items[i].NamespaceName

\* the scalar fields of a record other than image, image id and application
\* version, under their JSON names and as text
ScalarProperties(img) ==
    {Property("namespace", img.Namespace),
     Property("environment", img.Environment),
     Property("product", img.Product),
     Property("description", img.Description),
     Property("app_kubernetes_io_name", img.AppKubernetesIoName),
     Property("container_type", img.ContainerType),
     Property("skip", FormatBool(img.Skip)),
     Property("namespace_filter", img.NamespaceFilter),
     Property("namespace_filter_negated", img.NamespaceFilterNegated),
     Property("team", img.Team),
     Property("team_uuid", img.TeamUuid),
     Property("slack", img.Slack),
     Property("email", img.Email),
     Property("is_scan_baseimage_lifetime",
              FormatBool(img.IsScanBaseimageLifetime)),
     Property("is_scan_dependency_check",
              FormatBool(img.IsScanDependencyCheck)),
     Property("is_scan_dependency_track",
              FormatBool(img.IsScanDependencyTrack)),
     Property("is_scan_distroless", FormatBool(img.IsScanDistroless)),
     Property("is_scan_lifetime", FormatBool(img.IsScanLifetime)),
     Property("is_scan_malware", FormatBool(img.IsScanMalware)),
     Property("is_scan_new_version", FormatBool(img.IsScanNewVersion)),
     Property("is_scan_runasroot", FormatBool(img.IsScanRunAsRoot)),
     Property("is_scan_potentially_running_as_root",
              FormatBool(img.IsPotentiallyRunningAsRoot)),
     Property("is_scan_run_as_privileged",
              FormatBool(img.IsScanRunAsPrivileged)),
     Property("is_scan_potentially_running_as_privileged",
              FormatBool(img.IsPotentiallyRunningAsPrivileged)),
     Property("scan_lifetime_max_days", FormatInt(img.ScanLifetimeMaxDays))}

EncodedAsCycloneDX == encoded.fmt = "cyclonedx"

\* C23: CycloneDXMarshal emits one component per record, in record order,
\* of type container, named by the image, with the application version as
\* version and the image id as package URL, and the properties of each
\* component are the remaining scalar fields of its record (skip, team_uuid,
\* namespace_filter and namespace_filter_negated among them), booleans as
\* true / false and integers in decimal.
C23_EveryScalarFieldIsAProperty ==
    EncodedAsCycloneDX =>
        LET components == encoded.value.Components
        IN  /\ Len(components) = Len(images.items)
            /\ \A i \in 1..Len(images.items) :
                  /\ components[i].Type = "container"
                  /\ components[i].Name = images.items[i].Image
                  /\ components[i].Version =
                         images.items[i].AppKubernetesIoVersion
                  /\ components[i].PackageURL = images.items[i].ImageId
                  /\ Records(components[i].Properties) =
                         ScalarProperties(images.items[i])

\* the call under study is part of a run
InRun == cluster # NoCluster

EnumerationFailed == InRun /\ stage = "fatal" /\ runErr = ListError

\* C24: when a list call of the enumeration fails the run aborts without
\* emitting anything: no raw record collected so far is returned, Write is not
\* invoked, and the file the fs sink names is as it was before the run
\* (absent, or the previous report).
C24_NoArtifactOnEnumerationFailure ==
    EnumerationFailed =>
        /\ k8Images = NoList
        /\ writes = <<>>
        /\ dest \in {NoFile, OldReport}

SupportedFlags == {"s3", "api", "git", "fs", "stdout"}

SinkSelectionDone == InRun /\ stage # "start"

\* C25: NewStorage returns a writer only for the selectors s3, api, git, fs
\* and stdout; for every other selector, the empty one included, it returns
\* the nil writer and an error that names the selector.
C25_UnsupportedSelectorFails ==
    SinkSelectionDone =>
        /\ storage.kind # "nil" => storageCfg.StorageFlag \in SupportedFlags
        /\ storageCfg.StorageFlag \notin SupportedFlags =>
              /\ storage = NilWriter
              /\ runErr = Errorf("Storage flag %s is not supported",
                                 storageCfg.StorageFlag)
              /\ stage = "fatal"

C25_Witness ==
    /\ SinkSelectionDone
    /\ storageCfg.StorageFlag = ""
    /\ storage = NilWriter
    /\ IsErr(runErr)

\* the first required field the config lacks, in the order key, signature,
\* endpoint
FirstMissing(c) ==
    IF c.ApiKey = "" THEN "Api Key"
    ELSE IF c.ApiSignature = "" THEN "Api Signature"
    ELSE IF c.ApiEndpoint = "" THEN "Api Endpoint"
    ELSE ""

\* C26: NewApi returns the nil writer and an error naming the first missing
\* field (key, signature, endpoint, in this order) when one of them is empty;
\* otherwise it returns a writer whose key, signature, endpoint and extra
\* headers are those of the config.
C26_NewApiChecksRequiredFields ==
    stage = "returned" =>
        IF FirstMissing(storageCfg) # ""
        THEN /\ storage = NilWriter
             /\ runErr = [fmt |-> "missing " \o FirstMissing(storageCfg),
                          arg |-> <<>>]
        ELSE /\ runErr = NoErr
             /\ storage.kind = "api"
             /\ ~storage.null
             /\ storage.ApiKey = storageCfg.ApiKey
             /\ storage.ApiSignature = storageCfg.ApiSignature
             /\ storage.ApiEndpoint = storageCfg.ApiEndpoint
             /\ Elements(arrays, storage.HTTPHeaders) =
                    Elements(arrays, storageCfg.HTTPHeaders)

C26_Witness ==
    /\ stage = "returned"
    /\ storageCfg.ApiKey = ""
    /\ storageCfg.ApiEndpoint = ""
    /\ storage = NilWriter
    /\ runErr.fmt = "missing Api Key"

\* C27: once NewApi has returned a writer, a change the caller makes to the
\* ApiKey of the config or to an element of its HTTPHeaders leaves the key
\* and the headers of the writer as they were.
C27_WriterIsolatedFromConfig ==
    [][(stage \in {"returned", "changed"} /\ storage.kind = "api") =>
          /\ storage' = storage
          /\ Elements(arrays', storage.HTTPHeaders) =
                 Elements(arrays, storage.HTTPHeaders)]_vars

C27_Witness ==
    /\ stage = "changed"
    /\ storage.kind = "api"
    /\ storageCfg.ApiKey = "modified-key"
    /\ storage.ApiKey = "original-key"
    /\ Len(Elements(arrays, storage.HTTPHeaders)) > 0
    /\ Elements(arrays, storageCfg.HTTPHeaders)[1] = ModifiedHeader
    /\ Elements(arrays, storage.HTTPHeaders)[1] = "Original-Header:value"

\* C28: the stages of a run happen in the order sink selection, enumeration,
\* conversion, encoding, write: Write is invoked at most once, with the
\* encoding of the whole collection, and in a run only after the sink was
\* selected and enumeration and conversion returned; Store does not invoke
\* Write for a nil collection or a failed encoding and returns the error of
\* Write as it is; a run that ends as successful has delivered the encoding
\* of the whole collection.
C28_FullReportOrFailure ==
    /\ (InRun /\ ~k8Images.nil) => (storage.kind # "nil" /\ ~storage.null)
    /\ (InRun /\ ~images.nil) =>
          /\ ~k8Images.nil
          /\ Len(images.items) = Len(k8Images.items)
    /\ encoded # NoData => ~images.nil
    /\ Len(writes) <= 1
    /\ writes # <<>> =>
          /\ encoded = Marshal(jsonMarshal, images).data
          /\ writes[1].data = encoded
          /\ runErr = writes[1].err
    /\ (stage \in {"stored", "fatal"}
        /\ (images.nil \/ IsErr(Marshal(jsonMarshal, images).err))) =>
          writes = <<>>
    /\ stage = "stored" =>
          /\ writes # <<>>
          /\ writes[1].err = NoErr
          /\ storage.kind = "fs" => dest = encoded

C28_Witness ==
    /\ InRun
    /\ stage = "stored"
    /\ storage.kind = "fs"
    /\ Len(images.items) > 1
    /\ dest = JsonIndentMarshal(images).data

====
